---- MODULE Spec2Model ----
(***************************************************************************)
(* Model of the Baichuan protocol engine of reolink-aio-ts (class Baichuan *)
(* in src/baichuan/baichuan.ts): login handshake, send() with its          *)
(* request/response correlation and retry policy, connection handling,     *)
(* event subscription with keepalive, and push-event dispatch; of its     *)
(* cipher, decrypt and framing functions; and of the HTTP request path of  *)
(* class Host (send, sendChunk, login, response cache).                    *)
(*                                                                         *)
(* JavaScript runs one callback at a time.  A task is one asynchronous     *)
(* call chain; its pc names the await it is suspended at.  A task whose    *)
(* awaited promise is settled is Runnable (its continuation sits in the    *)
(* microtask queue); timers, socket events and device replies are          *)
(* macrotasks and run only when no task is Runnable.  Calls made by the    *)
(* application may come at any point.                                      *)
(***************************************************************************)
EXTENDS Naturals, Integers, FiniteSets, Sequences, TLC

\* ---------------------------------------------------------------- bounds
NTasks == 3
NCallers == 2
NSubscribers == 1
NSocks == 2
MaxCount == 2
MaxTime == 2
MaxEvents == 1
MaxCallbacks == 2
HealthSpan == 6

\* ------------------------------------------------------ program constants
RETRY_ATTEMPTS == 3
CmdLogin == 1
CmdLogout == 2
CmdSubscribe == 31
CmdAlarm == 33
CmdKeepalive == 93
CmdCapability == 199
MessHost == 250
MessPush == 251

Tasks == 1..NTasks
\* The tasks that the larger environments start
Callers == 1..NCallers
Socks == 1..NSocks
NullCh == -1
Channels == {NullCh, 0}

VARIABLES
  tk,          \* per task: the state of its call chain
  loggedIn,    \* this.loggedIn
  loginMutex,  \* this.loginMutex: the task whose login() created it, 0 = the initial promise
  nonce,       \* this.nonce is set
  aesKey,      \* this.aesKey is set
  hashes,      \* this.userHash / this.passwordHash are set
  conn,        \* this.transport / this.protocol: socket id, 0 = null
  sock,        \* per socket: "unused", "connecting", "open", "closing", "closed"
  mpend,       \* number of this.mutex promises whose 0 ms timer has not fired
  wire,        \* requests written to an open socket and not yet answered
  pwdOk,       \* the password is a valid regular expression source
  nonceW,      \* nonce requests written so far
  loginW,      \* login requests written so far
  sub,         \* the event subscription: flags, interval timers, timestamps
  now,         \* the clock, in keepalive intervals
  push,        \* push-event state: detection flags, callback registry, call log
  codec,       \* the cipher and framing functions: their inputs and results
  web          \* the HTTP side of Host: request queue, send mutex, response cache

vars == <<tk, loggedIn, loginMutex, nonce, aesKey, hashes, conn, sock, mpend,
          wire, pwdOk, nonceW, loginW, sub, now, push, codec, web>>

\* The variables outside the request engine
evars == <<sub, now, push, codec, web>>

\* The variables of the cipher functions and of the HTTP side
ovars == <<codec, web>>

\* No cipher call and no HTTP request has been made
NoCalls == [op |-> "none"]

IdleTask ==
  [pc |-> "idle", top |-> "none", frame |-> "none", cmd |-> 0, mess |-> 0,
   body |-> FALSE, retry |-> 0, oretry |-> 0, held |-> FALSE, lmAwait |-> 0,
   csock |-> 0, reg |-> 0, res |-> "none", pay |-> "none", waitOn |-> 0,
   race |-> "none", mAwait |-> 0, out |-> "none", writes |-> 0,
   onlyTmo |-> TRUE, wsock |-> 0, during |-> {}, prior |-> {}, caught |-> "none",
   args |-> "ok", budget |-> RETRY_ATTEMPTS]

\* A history counter, kept up to MaxCount
Inc(n) == IF n < MaxCount THEN n + 1 ELSE n

\* ------------------------------------------------------- frame parameters
\* The arguments of the send() call a task is currently in.
FCmd(r) == IF r.frame = "cmd" THEN r.cmd ELSE CmdLogin
FMess(r) == IF r.frame = "cmd" THEN r.mess ELSE MessHost
FBody(r) == IF r.frame = "cmd" THEN r.body ELSE r.frame # "nonce"
FKind(r) == IF r.frame = "cmd" THEN "cmd" ELSE IF r.frame = "nonce" THEN "nonce" ELSE "login"

\* messId resolution of send()
ResolveMess(ch) == IF ch = NullCh THEN MessHost ELSE ch + 1

\* --------------------------------------------------------- the login mutex
\* The task whose unresolved promise is this.loginMutex (0: it is resolved).
Holder == IF loginMutex # 0 /\ tk[loginMutex].held THEN loginMutex ELSE 0

\* releaseMutex(): every task awaiting the promise of t resumes.
Rel(t, f) ==
  IF f[t].held THEN f
  ELSE [u \in Tasks |-> IF f[u].lmAwait = t THEN [f[u] EXCEPT !.lmAwait = 0] ELSE f[u]]

\* --------------------------------------------------------------- exceptions
\* A login() that passes every error on as it is
LoginErrRaw(e) == e

\* login() maps a device-reported 401 to CredentialsInvalidError.
LoginErr(e) == IF e = "Api401" THEN "CredentialsInvalid" ELSE e

\* login() throws e: the finally block releases the mutex and the error
\* reaches the top-level caller (send() calls login() outside its try).
LoginThrows(r, e) == [r EXCEPT !.held = FALSE, !.pc = "done", !.out = e]

\* The calls whose send() is the logout command inside logout()
LogoutTops == {"logout", "unsub"}

\* The send() of frame "cmd" throws e to its caller, logout() included.
SendRaises(r, e) == [r EXCEPT !.pc = "done", !.out = e]

\* The send() of frame "cmd" throws e to its caller; logout() catches it
\* (caught records the error).
SendThrows(r, e) ==
  IF r.top \in LogoutTops THEN [r EXCEPT !.pc = "sendEnd", !.caught = e]
  ELSE [r EXCEPT !.pc = "done", !.out = e]

\* Exception e leaves the send() call of the current frame.
Propagate(r, e) ==
  CASE r.frame = "nonce" /\ e = "UnexpectedNonce" ->
         [r EXCEPT !.frame = "legacy", !.retry = RETRY_ATTEMPTS, !.pc = "enter"]
    [] r.frame \in {"nonce", "modern", "legacy"} /\ ~(r.frame = "nonce" /\ e = "UnexpectedNonce") ->
         LoginThrows(r, LoginErr(e))
    [] OTHER -> SendThrows(r, e)

\* The same for an exception that is not the rejection of the call's own
\* pending entry.
Throw(r, e) == Propagate([r EXCEPT !.onlyTmo = FALSE], e)

\* ------------------------------------------------------ the pending table
\* receiveFutures of protocol p: the tasks with an unsettled entry for (c, m).
Existing(p, c, m) ==
  {u \in Tasks : tk[u].res = "pending" /\ tk[u].reg = p /\ FCmd(tk[u]) = c /\ FMess(tk[u]) = m}

\* The tasks with an unsettled request for (c, m), on any connection.
Outstanding(c, m) ==
  {u \in Tasks : tk[u].res = "pending" /\ FCmd(tk[u]) = c /\ FMess(tk[u]) = m}

\* hidePassword(): new RegExp(this.password) throws on an invalid pattern.
HidePasswordThrows == ~pwdOk

\* waitForResponse() on this.protocol, then the debug log of the body, then
\* "await this.mutex".
RegisterRec(r) ==
  IF conn = 0 THEN Throw(r, "TypeError")
  ELSE IF FBody(r) /\ HidePasswordThrows
       THEN Throw([r EXCEPT !.reg = conn, !.res = "pending"], "SyntaxError")
       ELSE [r EXCEPT !.reg = conn, !.res = "pending", !.pay = "none",
                      !.pc = "mutexWait", !.mAwait = mpend]

\* ------------------------------------------------------------- scheduling
FreeSock == {s \in Socks : sock[s] = "unused"}
NewSock == CHOOSE s \in FreeSock : \A s2 \in FreeSock : s <= s2

Runnable(t) ==
  LET r == tk[t] IN
  \/ r.pc = "lmWait" /\ r.lmAwait = 0
  \/ r.pc \in {"enter", "afterLogin", "connDone", "connFail", "sendEnd"}
  \/ r.pc = "closeWait" /\ sock[r.csock] = "closed"
  \/ r.pc = "raceWait" /\ r.race # "pending"
  \/ r.pc = "mutexWait" /\ r.mAwait = 0
  \/ r.pc = "respWait" /\ r.res # "pending"

Quiet == \A t \in Tasks : ~Runnable(t)

\* A finished call chain keeps its result and, when it left a pending entry
\* behind, that entry; its other locals are dead.
Norm(r) ==
  IF r.pc \notin {"done", "capped"} THEN r
  ELSE [IdleTask EXCEPT !.pc = r.pc, !.top = r.top, !.cmd = r.cmd, !.out = r.out,
                        !.writes = r.writes, !.onlyTmo = r.onlyTmo,
                        !.during = r.during, !.caught = r.caught, !.args = r.args,
                        !.budget = r.budget,
                        !.frame = IF r.res = "pending" THEN r.frame ELSE "none",
                        !.mess = IF r.res = "pending" THEN r.mess ELSE 0,
                        !.reg = IF r.res = "pending" THEN r.reg ELSE 0,
                        !.res = IF r.res = "pending" THEN "pending" ELSE "none"]

SetTk(t, r) == tk' = Rel(t, [tk EXCEPT ![t] = Norm(r)])

\* -------------------------------------------------------- connectIfNeeded
\* new Socket(); socket.connect(): the synchronous part when no live socket exists.
\* With every socket of the model in use the task stops ("capped").
OpenSock(t, r) ==
  IF FreeSock = {}
  THEN /\ SetTk(t, [r EXCEPT !.pc = "capped"])
       /\ UNCHANGED sock
  ELSE /\ SetTk(t, [r EXCEPT !.pc = "connWait", !.csock = NewSock])
       /\ sock' = [sock EXCEPT ![NewSock] = "connecting"]

\* send() from the messId resolution to "await this.connectIfNeeded()".
SendBody(t, r) ==
  IF r.frame = "cmd" /\ r.args # "ok"
  THEN \* both channel and extension, or an invalid message class
       /\ SetTk(t, Throw(r, "InvalidParameter"))
       /\ UNCHANGED sock
  ELSE IF r.frame = "cmd" /\ FBody(r) /\ ~aesKey
  THEN \* aesEncrypt(): first login before using AES encryption
       /\ SetTk(t, Throw(r, "InvalidParameter"))
       /\ UNCHANGED sock
  ELSE IF conn # 0 /\ sock[conn] = "open"
  THEN /\ SetTk(t, [r EXCEPT !.pc = "connDone"])
       /\ UNCHANGED sock
  ELSE IF conn # 0
  THEN \* a previous protocol handle exists: wait for it, at most TIMEOUT + 5 s
       /\ SetTk(t, [r EXCEPT !.pc = "grace"])
       /\ UNCHANGED sock
  ELSE OpenSock(t, r)

\* ------------------------------------------------------------------- calls
\* login() up to "await this.loginMutex"
LoginCall(r) == [r EXCEPT !.pc = "lmWait", !.lmAwait = Holder]

\* The tasks of the model are taken in the order of their numbers.
Fresh(t) == tk[t].pc = "idle" /\ \A u \in Tasks : u < t => tk[u].pc # "idle"

\* The login() calls in progress
InLogin == {u \in Tasks : tk[u].top = "login" /\ tk[u].pc \notin {"idle", "done", "capped"}}

CallLogin(t) ==
  /\ Fresh(t)
  /\ SetTk(t, LoginCall([tk[t] EXCEPT !.top = "login", !.during = InLogin]))
  /\ UNCHANGED <<loggedIn, loginMutex, nonce, aesKey, hashes, conn, sock, mpend, wire,
                 pwdOk, nonceW, loginW>>
  /\ UNCHANGED evars

\* send(cmdId, channel, body) with the default retry budget
CallSend(t, c, ch, b) ==
  /\ Fresh(t)
  /\ SetTk(t, [tk[t] EXCEPT !.top = "send", !.frame = "cmd", !.cmd = c,
                            !.mess = ResolveMess(ch), !.body = b \/ ch # NullCh,
                            !.retry = RETRY_ATTEMPTS, !.pc = "enter"])
  /\ UNCHANGED <<loggedIn, loginMutex, nonce, aesKey, hashes, conn, sock, mpend, wire,
                 pwdOk, nonceW, loginW>>
  /\ UNCHANGED evars

\* ------------------------------------------------------- microtask steps
\* A send() without the implicit login
StepEnterNoLogin(t) ==
  LET r == IF tk[t].pc = "enter"
           THEN [tk[t] EXCEPT !.prior = Outstanding(FCmd(tk[t]), FMess(tk[t])) \ {t}]
           ELSE tk[t]
  IN
  /\ r.pc \in {"enter", "afterLogin"}
  /\ SendBody(t, IF r.pc = "enter" THEN [r EXCEPT !.retry = r.retry - 1] ELSE r)
  /\ UNCHANGED <<loggedIn, loginMutex, nonce, aesKey, hashes, conn, mpend, wire,
                 pwdOk, nonceW, loginW>>
  /\ UNCHANGED evars

\* send(): "retry = retry - 1", the login check, then SendBody; after an
\* implicit login has returned, SendBody alone.
StepEnter(t) ==
  LET r == IF tk[t].pc = "enter"
           THEN [tk[t] EXCEPT !.prior = Outstanding(FCmd(tk[t]), FMess(tk[t])) \ {t}]
           ELSE tk[t]
  IN
  /\ r.pc \in {"enter", "afterLogin"}
  /\ ~(r.pc = "afterLogin" /\ r.top = "subscribe")
  /\ IF r.pc = "enter" /\ ~loggedIn /\ FCmd(r) > 2
     THEN /\ SetTk(t, LoginCall([r EXCEPT !.oretry = r.retry - 1]))
          /\ UNCHANGED sock
     ELSE SendBody(t, IF r.pc = "enter" THEN [r EXCEPT !.retry = r.retry - 1] ELSE r)
  /\ UNCHANGED <<loggedIn, loginMutex, nonce, aesKey, hashes, conn, mpend, wire,
                 pwdOk, nonceW, loginW>>
  /\ UNCHANGED evars

\* login() after "await this.loginMutex"
StepLogin(t) ==
  LET r == tk[t] IN
  /\ r.pc = "lmWait" /\ r.lmAwait = 0
  /\ loginMutex' = t
  /\ IF loggedIn
     THEN SetTk(t, IF r.top = "login"
                   THEN [r EXCEPT !.pc = "done", !.out = "ok"]
                   ELSE [r EXCEPT !.pc = "afterLogin", !.frame = "cmd", !.retry = r.oretry,
                                  !.oretry = 0])
     ELSE SetTk(t, [r EXCEPT !.held = TRUE, !.frame = "nonce",
                             !.retry = RETRY_ATTEMPTS, !.pc = "enter"])
  /\ UNCHANGED <<loggedIn, nonce, aesKey, hashes, conn, sock, mpend, wire,
                 pwdOk, nonceW, loginW>>
  /\ UNCHANGED evars

\* send() after connectIfNeeded() returned: the check for an existing future
StepConnected(t) ==
  LET r == tk[t] IN
  /\ r.pc = "connDone"
  /\ IF conn = 0
     THEN SetTk(t, Throw(r, "Connection"))
     ELSE IF Existing(conn, FCmd(r), FMess(r)) # {}
     THEN \E u \in Existing(conn, FCmd(r), FMess(r)) :
            SetTk(t, [r EXCEPT !.pc = "raceWait", !.waitOn = u, !.race = "pending"])
     ELSE SetTk(t, RegisterRec(r))
  /\ UNCHANGED <<loggedIn, loginMutex, nonce, aesKey, hashes, conn, sock, mpend, wire,
                 pwdOk, nonceW, loginW>>
  /\ UNCHANGED evars

\* connectIfNeeded() rejected
StepConnFail(t) ==
  /\ tk[t].pc = "connFail"
  /\ SetTk(t, Throw(tk[t], "Connection"))
  /\ UNCHANGED <<loggedIn, loginMutex, nonce, aesKey, hashes, conn, sock, mpend, wire,
                 pwdOk, nonceW, loginW>>
  /\ UNCHANGED evars

\* send() after the race on the existing future: the cleanup loop, or the catch
StepRace(t) ==
  LET r == tk[t] IN
  /\ r.pc = "raceWait" /\ r.race # "pending"
  /\ IF r.race = "rej" \/ conn = 0
     THEN SetTk(t, RegisterRec([r EXCEPT !.race = "none", !.waitOn = 0]))
     ELSE IF Existing(conn, FCmd(r), FMess(r)) # {}
     THEN SetTk(t, [r EXCEPT !.pc = "cleanup", !.race = "none", !.waitOn = 0])
     ELSE SetTk(t, RegisterRec([r EXCEPT !.race = "none", !.waitOn = 0]))
  /\ UNCHANGED <<loggedIn, loginMutex, nonce, aesKey, hashes, conn, sock, mpend, wire,
                 pwdOk, nonceW, loginW>>
  /\ UNCHANGED evars

\* send() after "await this.mutex": the write
StepMutex(t) ==
  LET r == tk[t] IN
  /\ r.pc = "mutexWait" /\ r.mAwait = 0
  /\ mpend' = mpend + 1
  /\ IF conn = 0
     THEN \* this.transport is null: TypeError, not a retryable error
          /\ SetTk(t, Throw(r, "TypeError"))
          /\ UNCHANGED <<wire, nonceW, loginW>>
     ELSE /\ SetTk(t, [r EXCEPT !.pc = "respWait", !.wsock = conn,
                                !.writes = IF r.frame = "cmd" THEN @ + 1 ELSE @])
          /\ wire' = IF sock[conn] = "open"
                     THEN wire \cup {[sock |-> conn, cmd |-> FCmd(r), mess |-> FMess(r),
                                       kind |-> FKind(r)]}
                     ELSE wire
          /\ nonceW' = IF r.frame = "nonce" THEN Inc(nonceW) ELSE nonceW
          /\ loginW' = IF r.frame \in {"modern", "legacy"} THEN Inc(loginW) ELSE loginW
  /\ UNCHANGED <<loggedIn, loginMutex, nonce, aesKey, hashes, conn, sock, pwdOk>>
  /\ UNCHANGED evars

\* The catch block with a budget that allows one attempt too many.
RetryPastBudget(res, retry, cmdId) ==
  IF res = "Api400" /\ retry >= 0 THEN "busy"
  ELSE IF res = "Timeout" /\ retry >= 0 /\ cmdId # CmdLogout THEN "again"
  ELSE IF res = "Connection" /\ retry >= 0 /\ cmdId # CmdLogout THEN "again"
  ELSE "throw"

\* The catch block without the exception for logout.
RetryLogout(res, retry, cmdId) ==
  IF res = "Api400" /\ retry > 0 THEN "busy"
  ELSE IF res = "Timeout" /\ retry > 0 THEN "again"
  ELSE IF res = "Connection" /\ retry > 0 THEN "again"
  ELSE "throw"

\* The catch block of send(): what follows a rejected attempt.
RetryAction(res, retry, cmdId) ==
  IF res = "Api400" /\ retry > 0 THEN "busy"
  ELSE IF res = "Timeout" /\ retry > 0 /\ cmdId # CmdLogout THEN "again"
  ELSE IF res = "Connection" /\ retry > 0 /\ cmdId # CmdLogout THEN "again"
  ELSE "throw"

\* The awaited response arrived and its debug log does not throw.
ReturnsOk(q) == q.res = "ok" /\ ~(q.pay # "empty" /\ HidePasswordThrows)

\* The current send() returns its decrypted body to its caller.
Returned(t, pay, r) ==
  IF pay # "empty" /\ HidePasswordThrows
  THEN \* the debug log of the received body
       /\ SetTk(t, Throw(r, "SyntaxError"))
       /\ UNCHANGED <<loggedIn, nonce, aesKey, hashes>>
  ELSE CASE r.frame = "nonce" /\ pay = "nonce" ->
              \* getNonce() found the nonce; login() goes on with the modern login
              /\ nonce' = TRUE /\ aesKey' = TRUE /\ hashes' = TRUE
              /\ SetTk(t, [r EXCEPT !.frame = "modern", !.retry = RETRY_ATTEMPTS,
                                     !.pc = "enter"])
              /\ UNCHANGED loggedIn
         [] r.frame = "nonce" /\ pay = "xml" ->
              \* this.nonce = null; "could not find nonce in response"
              /\ nonce' = FALSE
              /\ SetTk(t, Throw(r, "UnexpectedNonce"))
              /\ UNCHANGED <<loggedIn, aesKey, hashes>>
         [] r.frame = "nonce" /\ pay = "empty" ->
              \* "received empty response when requesting nonce"
              /\ SetTk(t, Throw(r, "UnexpectedNonce"))
              /\ UNCHANGED <<loggedIn, nonce, aesKey, hashes>>
         [] r.frame \in {"modern", "legacy"} ->
              /\ loggedIn' = TRUE
              /\ SetTk(t, IF r.top = "login"
                           THEN [r EXCEPT !.held = FALSE, !.pc = "done", !.out = "ok"]
                           ELSE [r EXCEPT !.held = FALSE, !.pc = "afterLogin",
                                          !.frame = "cmd", !.retry = r.oretry,
                                          !.oretry = 0])
              /\ UNCHANGED <<nonce, aesKey, hashes>>
         [] OTHER ->
              /\ SetTk(t, IF r.top \in LogoutTops THEN [r EXCEPT !.pc = "sendEnd"]
                           ELSE [r EXCEPT !.pc = "done", !.out = "ok"])
              /\ UNCHANGED <<loggedIn, nonce, aesKey, hashes>>

\* send() after "await responsePromise"
StepResponse(t) ==
  LET q == tk[t]
      a == RetryAction(q.res, q.retry, FCmd(q))
      r == [q EXCEPT !.res = "none", !.pay = "none", !.reg = 0, !.wsock = 0, !.prior = {},
                     !.onlyTmo = IF q.res = "ok" THEN @
                                 ELSE @ /\ q.frame = "cmd" /\ q.res = "Timeout"]
  IN
  /\ q.pc = "respWait" /\ q.res # "pending"
  /\ IF q.res = "ok" THEN Returned(t, q.pay, r)
     ELSE /\ SetTk(t, CASE a = "busy" -> [r EXCEPT !.pc = "busy"]
                         [] a = "again" -> [r EXCEPT !.pc = "enter"]
                         [] OTHER -> Propagate(r, q.res))
          /\ UNCHANGED <<loggedIn, nonce, aesKey, hashes>>
  /\ sub' = IF q.top = "keepalive" /\ q.frame = "cmd" /\ ReturnsOk(q)
            THEN \* keepaliveLoop(): this.timeKeepaliveLoop = Date.now() / 1000
                 [sub EXCEPT !.timeKeepaliveLoop = now]
            ELSE sub
  /\ UNCHANGED <<loginMutex, conn, sock, mpend, wire, pwdOk, nonceW, loginW, now, push, codec, web>>

\* ------------------------------------------------------------------ events
\* The promise of task u's pending entry settles: u's own await and every
\* task racing on that promise are released.
Settle(f, u, result, pay) ==
  [v \in Tasks |->
     IF v = u THEN [f[v] EXCEPT !.res = result, !.pay = pay]
     ELSE IF f[v].pc = "raceWait" /\ f[v].waitOn = u /\ f[v].race = "pending"
          THEN [f[v] EXCEPT !.race = IF result = "ok" THEN "ok" ELSE "rej",
                            !.prior = @ \ {u}]
          ELSE [f[v] EXCEPT !.prior = @ \ {u}]]

RECURSIVE SettleAll(_, _, _)
SettleAll(f, S, result) ==
  IF S = {} THEN f
  ELSE LET u == CHOOSE x \in S : TRUE IN SettleAll(Settle(f, u, result, "none"), S \ {u}, result)

\* socket "connect": protocol.connect(socket); this.transport = socket; this.protocol = protocol
SockConnected(s) ==
  /\ Quiet
  /\ sock[s] = "connecting"
  /\ sock' = [sock EXCEPT ![s] = "open"]
  /\ conn' = s
  /\ tk' = [t \in Tasks |-> IF tk[t].pc = "connWait" /\ tk[t].csock = s
                             THEN [tk[t] EXCEPT !.pc = "connDone", !.csock = 0] ELSE tk[t]]
  /\ UNCHANGED <<loggedIn, loginMutex, nonce, aesKey, hashes, mpend, wire, pwdOk, nonceW, loginW>>
  /\ UNCHANGED evars

\* socket "error" or the connection timeout: connectIfNeeded() rejects
SockConnectFail(s) ==
  /\ Quiet
  /\ sock[s] = "connecting"
  /\ sock' = [sock EXCEPT ![s] = "closed"]
  /\ tk' = [t \in Tasks |-> IF tk[t].pc = "connWait" /\ tk[t].csock = s
                             THEN [tk[t] EXCEPT !.pc = "connFail", !.csock = 0] ELSE tk[t]]
  /\ UNCHANGED <<loggedIn, loginMutex, nonce, aesKey, hashes, conn, mpend, wire, pwdOk, nonceW, loginW>>
  /\ UNCHANGED evars

\* A close callback that records the time of the loss unconditionally
CloseCallbackAlways ==
  /\ loggedIn' = FALSE
  /\ sub' = [sub EXCEPT !.eventsActive = FALSE, !.timeConnectionLost = now]

\* closeCallback(): the session is logged out, events are inactive, and with
\* a subscription the time of the loss is recorded
CloseCallback ==
  /\ loggedIn' = FALSE
  /\ sub' = [sub EXCEPT !.eventsActive = FALSE,
                        !.timeConnectionLost = IF sub.subscribed THEN now ELSE @]

\* The protocol of socket s on connection loss: every entry of its table is
\* failed, then the close callback runs.
SockClose(s) ==
  /\ Quiet
  /\ sock[s] \in {"open", "closing"}
  /\ sock' = [sock EXCEPT ![s] = "closed"]
  /\ tk' = SettleAll(tk, {u \in Tasks : tk[u].res = "pending" /\ tk[u].reg = s}, "Connection")
  /\ wire' = {w \in wire : w.sock # s}
  /\ CloseCallback
  /\ UNCHANGED <<loginMutex, nonce, aesKey, hashes, conn, mpend, pwdOk, nonceW, loginW, now, push, codec, web>>

\* What the device may answer to a request of each kind: <<status, body>>
Replies(kind) ==
  CASE kind = "nonce" -> {<<"ok", "nonce">>, <<"ok", "xml">>, <<"ok", "empty">>}
    [] kind = "login" -> {<<"ok", "xml">>, <<"Api401", "none">>}
    [] OTHER -> {<<"ok", "xml">>, <<"ok", "empty">>, <<"Api400", "none">>}

\* A reply frame arrives on socket w.sock: the protocol of that socket hands
\* it to the entry of its table with the frame's (cmdId, messId); without
\* one the frame is a push.
DeviceReply(w, rep) ==
  /\ Quiet
  /\ w \in wire
  /\ rep \in Replies(w.kind)
  /\ wire' = wire \ {w}
  /\ IF Existing(w.sock, w.cmd, w.mess) = {}
     THEN UNCHANGED tk
     ELSE \E u \in Existing(w.sock, w.cmd, w.mess) : tk' = Settle(tk, u, rep[1], rep[2])
  /\ UNCHANGED <<loggedIn, loginMutex, nonce, aesKey, hashes, conn, sock, mpend, pwdOk, nonceW, loginW>>
  /\ UNCHANGED evars

\* The response timeout of a pending entry (TIMEOUT seconds after it was
\* registered, so after the 0 ms timer of the write mutex).
ResponseTimeout(t) ==
  /\ Quiet
  /\ tk[t].res = "pending"
  /\ tk[t].pc # "mutexWait"
  /\ tk' = Settle(tk, t, "Timeout", "none")
  /\ UNCHANGED <<loggedIn, loginMutex, nonce, aesKey, hashes, conn, sock, mpend, wire, pwdOk, nonceW, loginW>>
  /\ UNCHANGED evars

\* One 10 ms sleep of the cleanup loop ends; with the entry still there the
\* step stands for the loop giving up after 1000 rounds.
CleanupTick(t) ==
  /\ Quiet
  /\ tk[t].pc = "cleanup"
  /\ SetTk(t, RegisterRec([tk[t] EXCEPT !.prior = IF Existing(conn, FCmd(tk[t]), FMess(tk[t])) # {}
                                                    THEN {} ELSE @]))
  /\ UNCHANGED <<loggedIn, loginMutex, nonce, aesKey, hashes, conn, sock, mpend, wire, pwdOk, nonceW, loginW>>
  /\ UNCHANGED evars

\* The 0 ms timer of the oldest unresolved this.mutex promise fires.
MutexTimer ==
  /\ Quiet
  /\ mpend > 0
  /\ mpend' = mpend - 1
  /\ tk' = [t \in Tasks |-> IF tk[t].pc = "mutexWait" /\ tk[t].mAwait > 0
                             THEN [tk[t] EXCEPT !.mAwait = @ - 1] ELSE tk[t]]
  /\ UNCHANGED <<loggedIn, loginMutex, nonce, aesKey, hashes, conn, sock, wire, pwdOk, nonceW, loginW>>
  /\ UNCHANGED evars

\* The 1.5 s delay after a busy status is over: send() calls itself.
BusyTimer(t) ==
  /\ Quiet
  /\ tk[t].pc = "busy"
  /\ SetTk(t, [tk[t] EXCEPT !.pc = "enter"])
  /\ UNCHANGED <<loggedIn, loginMutex, nonce, aesKey, hashes, conn, sock, mpend, wire, pwdOk, nonceW, loginW>>
  /\ UNCHANGED evars

\* connectIfNeeded(): the wait for the previous protocol handle is over.
GraceEnd(t) ==
  /\ Quiet
  /\ tk[t].pc = "grace"
  /\ OpenSock(t, tk[t])
  /\ UNCHANGED <<loggedIn, loginMutex, nonce, aesKey, hashes, conn, mpend, wire, pwdOk, nonceW, loginW>>
  /\ UNCHANGED evars

\* The device answers a request successfully.
OkReply(kind) == IF kind = "nonce" THEN <<"ok", "nonce">> ELSE <<"ok", "xml">>

DeviceOk(w) == DeviceReply(w, OkReply(w.kind))

\* ------------------------------------------------------ event subscription
\* subscribeEvents() without its check of the subscribed flag
CallSubscribeAlways(t) ==
  /\ Fresh(t)
  /\ loggedIn' = (loggedIn /\ conn # 0 /\ sock[conn] = "open")
  /\ SetTk(t, LoginCall([tk[t] EXCEPT !.top = "subscribe"]))
  /\ sub' = [sub EXCEPT !.unsub = FALSE]
  /\ UNCHANGED <<loginMutex, nonce, aesKey, hashes, conn, sock, mpend, wire, pwdOk,
                 nonceW, loginW, now, push, codec, web>>

\* subscribeEvents() up to "await this.login()"; unsub is reset: the call
\* follows every unsubscribeEvents() made so far
CallSubscribe(t) ==
  /\ Fresh(t)
  /\ IF sub.subscribed
     THEN /\ SetTk(t, [tk[t] EXCEPT !.top = "subscribe", !.pc = "done", !.out = "ok"])
          /\ UNCHANGED loggedIn
     ELSE \* a missing or destroyed transport forces a new login
          /\ loggedIn' = (loggedIn /\ conn # 0 /\ sock[conn] = "open")
          /\ SetTk(t, LoginCall([tk[t] EXCEPT !.top = "subscribe"]))
  /\ sub' = [sub EXCEPT !.unsub = FALSE]
  /\ UNCHANGED <<loginMutex, nonce, aesKey, hashes, conn, sock, mpend, wire, pwdOk,
                 nonceW, loginW, now, push, codec, web>>

\* A subscribeEvents() that awaits its send(31, ..., 251)
SubscribeCallAwaited(r) ==
  [r EXCEPT !.frame = "cmd", !.cmd = CmdSubscribe, !.mess = MessPush,
            !.body = FALSE, !.retry = RETRY_ATTEMPTS, !.pc = "enter"]

\* The send(31, ..., 251) that subscribeEvents() starts without awaiting it
SubscribeCall(r) ==
  [r EXCEPT !.top = "fire31", !.frame = "cmd", !.cmd = CmdSubscribe, !.mess = MessPush,
            !.body = FALSE, !.retry = RETRY_ATTEMPTS, !.pc = "enter"]

\* subscribeEvents() after login() returned: the flags, the interval timer,
\* and the subscribe command
StepSubscribed(t) ==
  /\ tk[t].pc = "afterLogin" /\ tk[t].top = "subscribe"
  /\ sub' = [sub EXCEPT !.subscribed = TRUE, !.eventsActive = TRUE,
                        !.timeKeepaliveLoop = now, !.timers = @ + 1,
                        !.keepaliveTask = TRUE]
  /\ SetTk(t, SubscribeCall(tk[t]))
  /\ UNCHANGED <<loggedIn, loginMutex, nonce, aesKey, hashes, conn, sock, mpend, wire,
                 pwdOk, nonceW, loginW, now, push, codec, web>>

\* A keepalive round that repeats the subscribe command
KeepaliveBySubscribe(r) ==
  [r EXCEPT !.top = "keepalive", !.frame = "cmd", !.cmd = CmdSubscribe,
            !.mess = MessPush, !.body = FALSE, !.retry = RETRY_ATTEMPTS, !.pc = "enter"]

\* The send(93) of one keepalive round
KeepaliveCall(r) ==
  [r EXCEPT !.top = "keepalive", !.frame = "cmd", !.cmd = CmdKeepalive,
            !.mess = ResolveMess(NullCh), !.body = FALSE, !.retry = RETRY_ATTEMPTS,
            !.pc = "enter"]

\* An interval timer fires: keepaliveLoop() up to the call of send(93)
KeepaliveTick(t) ==
  /\ Quiet
  /\ sub.due > 0
  /\ Fresh(t)
  /\ sub' = [sub EXCEPT !.due = @ - 1]
  /\ IF sub.subscribed /\ sub.eventsActive
     THEN SetTk(t, KeepaliveCall(tk[t]))
     ELSE UNCHANGED tk
  /\ UNCHANGED <<loggedIn, loginMutex, nonce, aesKey, hashes, conn, sock, mpend, wire,
                 pwdOk, nonceW, loginW, now, push, codec, web>>

\* One keepalive interval passes, up to time limit: every armed interval
\* timer becomes due.
TockTo(limit) ==
  /\ Quiet
  /\ sub.due = 0
  /\ now < limit
  /\ now' = now + 1
  /\ sub' = [sub EXCEPT !.due = sub.timers]
  /\ UNCHANGED <<tk, loggedIn, loginMutex, nonce, aesKey, hashes, conn, sock, mpend, wire,
                 pwdOk, nonceW, loginW, push, codec, web>>

Tock == TockTo(MaxTime)

\* ------------------------------------------------------- health predicate
\* The grace window of 120 s, in keepalive intervals of 30 s
GraceTicks == 4

\* The clock when the client is created: Date.now() / 1000 is more than the
\* grace window after time 0, the initial timeConnectionLost
StartTime == GraceTicks + 1

\* A health predicate that reads the flag alone
EventsActiveFlag == sub.eventsActive

\* get eventsActiveValue()
EventsActiveValue == sub.eventsActive /\ now - sub.timeConnectionLost > GraceTicks

\* ------------------------------------------------- logout and unsubscribe
\* logout(): the fields it clears before it returns; s is the subscription
\* state it started from
ClearSession(s) ==
  /\ loggedIn' = FALSE
  /\ conn' = 0
  /\ nonce' = FALSE /\ aesKey' = FALSE /\ hashes' = FALSE
  /\ sub' = [s EXCEPT !.eventsActive = FALSE]

\* logout() without its check of the subscription
LogoutUnguarded(t, top, s) ==
  IF loggedIn /\ conn # 0
  THEN /\ SetTk(t, [tk[t] EXCEPT !.top = top, !.frame = "cmd", !.cmd = CmdLogout,
                                 !.mess = ResolveMess(NullCh), !.body = TRUE,
                                 !.retry = RETRY_ATTEMPTS, !.pc = "enter"])
       /\ sub' = s
       /\ UNCHANGED <<loggedIn, conn, nonce, aesKey, hashes>>
  ELSE /\ SetTk(t, [tk[t] EXCEPT !.top = top, !.pc = "done", !.out = "ok"])
       /\ ClearSession(s)

\* logout() up to its first await, called as top by task t with the
\* subscription state s
LogoutCall(t, top, s) ==
  IF s.subscribed
  THEN \* first call unsubscribeEvents
       /\ SetTk(t, [tk[t] EXCEPT !.top = top, !.pc = "done", !.out = "ok"])
       /\ sub' = s
       /\ UNCHANGED <<loggedIn, conn, nonce, aesKey, hashes>>
  ELSE IF loggedIn /\ conn # 0
  THEN \* await this.send(2, null, xml)
       /\ SetTk(t, [tk[t] EXCEPT !.top = top, !.frame = "cmd", !.cmd = CmdLogout,
                                 !.mess = ResolveMess(NullCh), !.body = TRUE,
                                 !.retry = RETRY_ATTEMPTS, !.pc = "enter"])
       /\ sub' = s
       /\ UNCHANGED <<loggedIn, conn, nonce, aesKey, hashes>>
  ELSE /\ SetTk(t, [tk[t] EXCEPT !.top = top, !.pc = "done", !.out = "ok"])
       /\ ClearSession(s)

CallLogout(t) ==
  /\ Fresh(t)
  /\ LogoutCall(t, "logout", sub)
  /\ UNCHANGED <<loginMutex, sock, mpend, wire, pwdOk, nonceW, loginW, now, push, codec, web>>

\* unsubscribeEvents(): the flags, clearInterval of the stored timer handle,
\* then logout().  unsub records that the call was made.
Unsubscribed(s) ==
  LET n == IF s.keepaliveTask THEN s.timers - 1 ELSE s.timers IN
  [s EXCEPT !.subscribed = FALSE, !.eventsActive = FALSE, !.timers = n,
            !.due = IF @ > n THEN n ELSE @, !.keepaliveTask = FALSE, !.unsub = TRUE]

CallUnsubscribe(t) ==
  /\ Fresh(t)
  /\ LogoutCall(t, "unsub", Unsubscribed(sub))
  /\ UNCHANGED <<loginMutex, sock, mpend, wire, pwdOk, nonceW, loginW, now, push, codec, web>>

\* logout() after its send(2) returned or threw: this.protocol.close() and
\* "await this.protocol.getCloseFuture()"
StepLogoutClose(t) ==
  LET r == tk[t] IN
  /\ r.pc = "sendEnd"
  /\ IF conn = 0
     THEN \* this.protocol is null: the TypeError is caught, logout() finishes
          /\ SetTk(t, [r EXCEPT !.pc = "done", !.out = "ok"])
          /\ ClearSession(sub)
          /\ UNCHANGED sock
     ELSE /\ SetTk(t, [r EXCEPT !.pc = "closeWait", !.csock = conn])
          /\ sock' = [sock EXCEPT ![conn] = IF @ = "open" THEN "closing" ELSE @]
          /\ UNCHANGED <<loggedIn, conn, nonce, aesKey, hashes, sub>>
  /\ UNCHANGED <<loginMutex, mpend, wire, pwdOk, nonceW, loginW, now, push, codec, web>>

\* logout() after the close future resolved
StepLogoutDone(t) ==
  LET r == tk[t] IN
  /\ r.pc = "closeWait" /\ sock[r.csock] = "closed"
  /\ SetTk(t, [r EXCEPT !.pc = "done", !.out = "ok", !.csock = 0])
  /\ ClearSession(sub)
  /\ UNCHANGED <<loginMutex, sock, mpend, wire, pwdOk, nonceW, loginW, now, push, codec, web>>

\* ------------------------------------------------------------- push events
\* Strings are sequences of characters.
StrMD == <<"M", "D">>
StrNone == <<"n", "o", "n", "e">>
StrVisitor == <<"v", "i", "s", "i", "t", "o", "r">>
StrMDVisitor == StrMD \o <<",">> \o StrVisitor
StrPeople == <<"p", "e", "o", "p", "l", "e">>
StrOther == <<"o", "t", "h", "e", "r">>

\* String.prototype.includes
Includes(str, m) ==
  \E i \in 1..(Len(str) - Len(m) + 1) : SubSeq(str, i, i + Len(m) - 1) = m

\* The channels of the device (httpApi._channels) and the channel numbers
\* that frames and registrations may name
KnownChannels == {0}
WireChannels == {0, 1}
\* AI detection types the device reports for its channels
AiKeys == {StrPeople}

\* null as the command of a callback registration
NullCmd == NullCh
CallbackIds == {"a", "b"}
CmdKeys == {CmdAlarm, NullCmd}
ChKeys == WireChannels \cup {NullCh}

\* The alarm events a frame may carry: has names the fields that are present.
PushEvents ==
  {e \in [has : SUBSET {"channelId", "status", "AItype"}, channelId : WireChannels,
          status : {StrNone, StrMD, StrMDVisitor}, AItype : {StrPeople, StrOther}] :
     /\ "channelId" \notin e.has => e.channelId = 0
     /\ "status" \notin e.has => e.status = StrNone
     /\ "AItype" \notin e.has => e.AItype = StrOther}

\* The frames: a command, an empty body or a list of alarm events
PushFrames ==
  {[cmd |-> CmdAlarm, events |-> <<>>]}
    \cup {[cmd |-> c, events |-> <<e>>] : c \in {CmdAlarm, CmdSubscribe}, e \in PushEvents}
    \cup {[cmd |-> CmdAlarm, events |-> <<e1, e2>>] :
            e1 \in IF MaxEvents >= 2 THEN PushEvents ELSE {},
            e2 \in IF MaxEvents >= 2 THEN PushEvents ELSE {}}

\* The number of callbacks in the registry
RegistrySize(cb) ==
  LET slots == {<<c, ch>> \in CmdKeys \X ChKeys : c \in DOMAIN cb /\ ch \in DOMAIN cb[c]}
      RECURSIVE Sum(_)
      Sum(S) == IF S = {} THEN 0
                ELSE LET x == CHOOSE y \in S : TRUE IN Len(cb[x[1]][x[2]]) + Sum(S \ {x})
  IN Sum(slots)

\* Map.set on a map given as a function
MapSet(f, k, v) == [x \in DOMAIN f \cup {k} |-> IF x = k THEN v ELSE f[x]]
EmptyMap == [x \in {} |-> <<>>]

\* The ids of an inner map, in insertion order, after set(id, callback)
IdsSet(ids, id) == IF \E i \in 1..Len(ids) : ids[i] = id THEN ids ELSE Append(ids, id)
\* ... and after delete(id)
IdsDelete(ids, id) == SelectSeq(ids, LAMBDA x : x # id)

\* registerCallback(callbackId, callback, cmdId, channel)
RegisterCallback(id, c, ch) ==
  LET cmdCallbacks == IF c \in DOMAIN push.cb THEN push.cb[c] ELSE EmptyMap
      channelCallbacks == IF ch \in DOMAIN cmdCallbacks THEN cmdCallbacks[ch] ELSE <<>>
  IN
  /\ RegistrySize(push.cb) < MaxCallbacks
  /\ push' = [push EXCEPT !.cb = MapSet(push.cb, c,
                                        MapSet(cmdCallbacks, ch, IdsSet(channelCallbacks, id))),
                          !.events = <<>>]
  /\ UNCHANGED <<tk, loggedIn, loginMutex, nonce, aesKey, hashes, conn, sock, mpend, wire,
                 pwdOk, nonceW, loginW, sub, now, codec, web>>

\* An unregisterCallback that leaves the emptied inner maps in place
UnregisteredKeepEmpty(cb, id) ==
  [c \in DOMAIN cb |-> [ch \in DOMAIN cb[c] |-> IdsDelete(cb[c][ch], id)]]

\* unregisterCallback(callbackId): the registry without the id and without
\* the inner maps that this empties
Unregistered(cb, id) ==
  LET inner(c) == LET f == [ch \in DOMAIN cb[c] |-> IdsDelete(cb[c][ch], id)]
                  IN [ch \in {x \in DOMAIN f : f[x] # <<>>} |-> f[ch]]
  IN [c \in {x \in DOMAIN cb : DOMAIN inner(x) # {}} |-> inner(c)]

UnregisterCallback(id) ==
  /\ push' = [push EXCEPT !.cb = Unregistered(push.cb, id), !.events = <<>>]
  /\ UNCHANGED <<tk, loggedIn, loginMutex, nonce, aesKey, hashes, conn, sock, mpend, wire,
                 pwdOk, nonceW, loginW, sub, now, codec, web>>

\* A motion state that asks for the marker alone
MotionStateExact(states) == states = StrMD

\* parseXml(): the motion and visitor state of a status string
MotionState(states) == Includes(states, StrMD)
VisitorState(states) == Includes(states, StrVisitor)

\* executeCallbacks(cmdId, channel): the callbacks invoked, in order
ExecuteCallbacks(cb, c, ch) ==
  IF c \notin DOMAIN cb THEN <<>>
  ELSE IF ch \notin DOMAIN cb[c] THEN <<>>
  ELSE [i \in 1..Len(cb[c][ch]) |-> [cmd |-> c, ch |-> ch, id |-> cb[c][ch][i]]]

\* The callbacks of one alarm event: for its channel, then for any channel
EventCallbacks(cb, c, ch) == ExecuteCallbacks(cb, c, ch) \o ExecuteCallbacks(cb, c, NullCh)

\* A parseXml without the rule for the AI type "other"
EventFlagsNoOther(p, e) ==
  LET ch == e.channelId
      p1 == IF "status" \in e.has
            THEN [p EXCEPT !.motion[ch] = MotionState(e.status),
                           !.visitor[ch] = VisitorState(e.status)]
            ELSE p
  IN IF "AItype" \in e.has
     THEN [p1 EXCEPT !.ai[ch] = [k \in AiKeys |-> Includes(e.AItype, k)]]
     ELSE p1

\* parseXml(): the detection flags after one alarm event of a known channel
\* that carries a status or an AItype
EventFlags(p, e) ==
  LET ch == e.channelId
      p1 == IF "status" \in e.has
            THEN [p EXCEPT !.motion[ch] = MotionState(e.status),
                           !.visitor[ch] = VisitorState(e.status)]
            ELSE p
      p2 == IF "AItype" \in e.has
            THEN [p1 EXCEPT !.ai[ch] = [k \in AiKeys |-> Includes(e.AItype, k)],
                            !.motion[ch] = @ \/ Includes(e.AItype, StrOther)]
            ELSE p1
  IN p2

\* A parseXml that reads a missing channel identifier as channel 0
HandledDefaultChannel(e) ==
  /\ e.channelId \in KnownChannels
  /\ e.has \cap {"status", "AItype"} # {}

\* Is the alarm event handled (known channel, a status or an AItype)?
Handled(e) ==
  /\ "channelId" \in e.has
  /\ e.channelId \in KnownChannels
  /\ e.has \cap {"status", "AItype"} # {}

\* parseXml() for command 33: the events of the frame in order.  For each
\* event push.events records what the claims about dispatch read: the
\* event, the motion flag of its channel when its callbacks run, and the
\* callbacks invoked.
RECURSIVE ParseEvents(_, _, _, _)
ParseEvents(p, active, c, evs) ==
  IF evs = <<>> THEN <<p, active>>
  ELSE LET e == Head(evs) IN
       IF ~Handled(e)
       THEN ParseEvents([p EXCEPT !.events = Append(@, [ev |-> e, handled |-> FALSE,
                                                         motion |-> FALSE, calls |-> <<>>])],
                        active, c, Tail(evs))
       ELSE LET q == EventFlags(p, e) IN
            ParseEvents([q EXCEPT !.events = Append(@, [ev |-> e, handled |-> TRUE,
                                                         motion |-> q.motion[e.channelId],
                                                         calls |-> EventCallbacks(p.cb, c, e.channelId)])],
                        active \/ sub.subscribed, c, Tail(evs))

\* pushCallback(): a frame that matches no pending request
PushFrame(f) ==
  LET res == ParseEvents([push EXCEPT !.events = <<>>], sub.eventsActive, f.cmd, f.events) IN
  /\ Quiet
  /\ conn # 0 /\ sock[conn] = "open"
  /\ IF f.events = <<>> \/ HidePasswordThrows \/ f.cmd # CmdAlarm
     THEN /\ push' = [push EXCEPT !.events = <<>>]
          /\ UNCHANGED sub
     ELSE /\ push' = res[1]
          /\ sub' = [sub EXCEPT !.eventsActive = res[2]]
  /\ UNCHANGED <<tk, loggedIn, loginMutex, nonce, aesKey, hashes, conn, sock, mpend, wire,
                 pwdOk, nonceW, loginW, now, codec, web>>

\* ----------------------------------------------------------- specifications
\* The subscription and push state of a new client
InitEvents ==
  /\ sub = [subscribed |-> FALSE, eventsActive |-> FALSE, timers |-> 0, due |-> 0,
            keepaliveTask |-> FALSE, unsub |-> FALSE,
            timeKeepaliveLoop |-> 0, timeConnectionLost |-> 0]
  /\ now = 0
  /\ push = [motion |-> [ch \in KnownChannels |-> FALSE],
             visitor |-> [ch \in KnownChannels |-> FALSE],
             ai |-> [ch \in KnownChannels |-> [k \in AiKeys |-> FALSE]],
             cb |-> EmptyMap, events |-> <<>>]
  /\ codec = NoCalls /\ web = NoCalls

InitFresh ==
  /\ tk = [t \in Tasks |-> IdleTask]
  /\ loggedIn = FALSE
  /\ loginMutex = 0
  /\ nonce = FALSE /\ aesKey = FALSE /\ hashes = FALSE
  /\ conn = 0
  /\ sock = [s \in Socks |-> "unused"]
  /\ mpend = 0
  /\ wire = {}
  /\ nonceW = 0 /\ loginW = 0
  /\ InitEvents

\* A new client and a device that answers every request successfully.
InitHandshake == InitFresh /\ pwdOk = TRUE

NextHandshake ==
  \/ \E t \in Tasks : CallLogin(t)
  \/ \E t \in Tasks : CallSend(t, CmdKeepalive, NullCh, FALSE)
  \/ \E t \in Tasks : StepEnter(t)
  \/ \E t \in Tasks : StepLogin(t)
  \/ \E t \in Tasks : StepConnected(t)
  \/ \E t \in Tasks : StepRace(t)
  \/ \E t \in Tasks : StepMutex(t)
  \/ \E t \in Tasks : StepResponse(t)
  \/ \E s \in Socks : SockConnected(s)
  \/ \E w \in wire : DeviceOk(w)
  \/ \E t \in Tasks : CleanupTick(t)
  \/ MutexTimer

SpecHandshake == InitHandshake /\ [][NextHandshake]_vars

\* A new client, any password, and a device that may answer the handshake
\* with or without a nonce, reject the login, or not answer in time.
InitLogin == InitFresh /\ pwdOk \in BOOLEAN

NextLogin ==
  \/ \E t \in Callers : CallLogin(t)
  \/ \E t \in Tasks : StepEnter(t)
  \/ \E t \in Tasks : StepLogin(t)
  \/ \E t \in Tasks : StepConnected(t)
  \/ \E t \in Tasks : StepRace(t)
  \/ \E t \in Tasks : StepMutex(t)
  \/ \E t \in Tasks : StepResponse(t)
  \/ \E s \in Socks : SockConnected(s)
  \/ \E w \in wire : \E rep \in Replies(w.kind) : DeviceReply(w, rep)
  \/ \E t \in Tasks : ResponseTimeout(t)
  \/ \E t \in Tasks : CleanupTick(t)
  \/ MutexTimer

SpecLogin == InitLogin /\ [][NextLogin]_vars

\* A client that has logged in over socket 1 and is idle.
InitSend ==
  /\ tk = [t \in Tasks |-> IdleTask]
  /\ loggedIn = TRUE
  /\ loginMutex = 0
  /\ nonce = TRUE /\ aesKey = TRUE /\ hashes = TRUE
  /\ conn = 1
  /\ sock = [s \in Socks |-> IF s = 1 THEN "open" ELSE "unused"]
  /\ mpend = 0
  /\ wire = {}
  /\ pwdOk = TRUE
  /\ nonceW = 1 /\ loginW = 1
  /\ InitEvents

NextSend ==
  \/ \E t \in Callers : CallSend(t, CmdKeepalive, NullCh, FALSE)
  \/ \E t \in Callers : CallSend(t, CmdLogout, NullCh, TRUE)
  \/ \E t \in Tasks : StepEnter(t)
  \/ \E t \in Tasks : StepLogin(t)
  \/ \E t \in Tasks : StepConnected(t)
  \/ \E t \in Tasks : StepRace(t)
  \/ \E t \in Tasks : StepMutex(t)
  \/ \E t \in Tasks : StepResponse(t)
  \/ \E s \in Socks : SockConnected(s)
  \/ \E s \in Socks : SockClose(s)
  \/ \E w \in wire : \E rep \in Replies(w.kind) : DeviceReply(w, rep)
  \/ \E t \in Tasks : ResponseTimeout(t)
  \/ \E t \in Tasks : BusyTimer(t)
  \/ \E t \in Tasks : GraceEnd(t)
  \/ MutexTimer

SpecSend == InitSend /\ [][NextSend]_vars

\* The logged-in client with up to NTasks concurrent keepalive requests for the
\* host or for channel 0, and a device that answers or stays silent.
NextTable ==
  \/ \E t \in Tasks : \E ch \in Channels : CallSend(t, CmdKeepalive, ch, FALSE)
  \/ \E t \in Tasks : StepEnter(t)
  \/ \E t \in Tasks : StepConnected(t)
  \/ \E t \in Tasks : StepRace(t)
  \/ \E t \in Tasks : StepMutex(t)
  \/ \E t \in Tasks : StepResponse(t)
  \/ \E w \in wire : DeviceOk(w)
  \/ \E t \in Tasks : ResponseTimeout(t)
  \/ \E t \in Tasks : CleanupTick(t)
  \/ MutexTimer

SpecTable == InitSend /\ [][NextTable]_vars

\* A new client that subscribes to events while time passes; the connection
\* stays up and the device answers or stays silent.
NextSub ==
  \/ \E t \in 1..NSubscribers : CallSubscribe(t)
  \/ \E t \in Tasks : StepSubscribed(t)
  \/ \E t \in Tasks : StepEnter(t)
  \/ \E t \in Tasks : StepLogin(t)
  \/ \E t \in Tasks : StepConnected(t)
  \/ \E t \in Tasks : StepRace(t)
  \/ \E t \in Tasks : StepMutex(t)
  \/ \E t \in Tasks : StepResponse(t)
  \/ \E s \in Socks : SockConnected(s)
  \/ \E w \in wire : DeviceOk(w)
  \/ \E t \in Tasks : ResponseTimeout(t)
  \/ MutexTimer
  \/ \E t \in Tasks : KeepaliveTick(t)
  \/ Tock

SpecSub == InitHandshake /\ [][NextSub]_vars

\* The logged-in client with callbacks being registered and unregistered
\* while the device pushes frames.
NextPush ==
  \/ \E id \in CallbackIds, c \in CmdKeys, ch \in ChKeys : RegisterCallback(id, c, ch)
  \/ \E id \in CallbackIds : UnregisterCallback(id)
  \/ \E f \in PushFrames : PushFrame(f)

SpecPush == InitSend /\ [][NextPush]_vars

\* Frames of command 33 with two alarm events of which at least one names
\* no channel or an unknown one
PairEvents == {e \in PushEvents : "status" \in e.has /\ e.status # StrMDVisitor
                                     /\ e.AItype = (IF "AItype" \in e.has THEN StrPeople ELSE StrOther)}
PairFrames ==
  {[cmd |-> CmdAlarm, events |-> <<p[1], p[2]>>] :
     p \in {q \in PairEvents \X PairEvents :
              \E i \in 1..2 : "channelId" \notin q[i].has \/ q[i].channelId \notin KnownChannels}}

\* A logged-in client that is not subscribed, or whose subscription lost
\* its connection and was connected again by a later login (subscribed,
\* events not active, the interval timer armed)
InitPairs ==
  /\ tk = [t \in Tasks |-> IdleTask]
  /\ loggedIn = TRUE
  /\ loginMutex = 0
  /\ nonce = TRUE /\ aesKey = TRUE /\ hashes = TRUE
  /\ conn = 1
  /\ sock = [s \in Socks |-> IF s = 1 THEN "open" ELSE "unused"]
  /\ mpend = 0
  /\ wire = {}
  /\ pwdOk = TRUE
  /\ nonceW = 1 /\ loginW = 1
  /\ \E s \in BOOLEAN :
       sub = [subscribed |-> s, eventsActive |-> FALSE, timers |-> IF s THEN 1 ELSE 0,
              due |-> 0, keepaliveTask |-> s, unsub |-> FALSE,
              timeKeepaliveLoop |-> 0, timeConnectionLost |-> 0]
  /\ now = 0
  /\ push = [motion |-> [ch \in KnownChannels |-> FALSE],
             visitor |-> [ch \in KnownChannels |-> FALSE],
             ai |-> [ch \in KnownChannels |-> [k \in AiKeys |-> FALSE]],
             cb |-> EmptyMap, events |-> <<>>]
  /\ codec = NoCalls /\ web = NoCalls

NextPairs ==
  \/ \E ch \in ChKeys : RegisterCallback("a", CmdAlarm, ch)
  \/ \E f \in PairFrames : PushFrame(f)

SpecPairs == InitPairs /\ [][NextPairs]_vars

\* A new, logged-out client on which keepalive and logout commands are sent;
\* the device answers every request: the handshake with or without a nonce,
\* the login with success or status 401, a command with success or busy.
NextImplicit ==
  \/ \E t \in Callers : CallSend(t, CmdKeepalive, NullCh, FALSE)
  \/ \E t \in Callers : CallSend(t, CmdLogout, NullCh, FALSE)
  \/ \E t \in Tasks : StepEnter(t)
  \/ \E t \in Tasks : StepLogin(t)
  \/ \E t \in Tasks : StepConnected(t)
  \/ \E t \in Tasks : StepRace(t)
  \/ \E t \in Tasks : StepMutex(t)
  \/ \E t \in Tasks : StepResponse(t)
  \/ \E s \in Socks : SockConnected(s)
  \/ \E w \in wire : \E rep \in Replies(w.kind) : DeviceReply(w, rep)
  \/ \E t \in Tasks : BusyTimer(t)
  \/ MutexTimer

SpecImplicit == InitHandshake /\ [][NextImplicit]_vars

\* The logged-in, unsubscribed client on which logout() and keepalive requests
\* are called while the device answers, reports errors, stays silent or the
\* connection is lost.
NextLogout ==
  \/ \E t \in Callers : CallLogout(t)
  \/ \E t \in Callers : CallSend(t, CmdKeepalive, NullCh, FALSE)
  \/ \E t \in Tasks : StepEnter(t)
  \/ \E t \in Tasks : StepLogin(t)
  \/ \E t \in Tasks : StepConnected(t)
  \/ \E t \in Tasks : StepRace(t)
  \/ \E t \in Tasks : StepMutex(t)
  \/ \E t \in Tasks : StepResponse(t)
  \/ \E t \in Tasks : StepLogoutClose(t)
  \/ \E t \in Tasks : StepLogoutDone(t)
  \/ \E s \in Socks : SockConnected(s)
  \/ \E s \in Socks : SockClose(s)
  \/ \E w \in wire : \E rep \in Replies(w.kind) : DeviceReply(w, rep)
  \/ \E t \in Tasks : ResponseTimeout(t)
  \/ \E t \in Tasks : BusyTimer(t)
  \/ \E t \in Tasks : GraceEnd(t)
  \/ MutexTimer

SpecLogout == InitSend /\ [][NextLogout]_vars

\* A new client that subscribes to events while time passes and the
\* connection may be lost at any moment; the device answers every request.
NextClose ==
  \/ \E t \in 1..NSubscribers : CallSubscribe(t)
  \/ \E t \in Tasks : StepSubscribed(t)
  \/ \E t \in Tasks : StepEnter(t)
  \/ \E t \in Tasks : StepLogin(t)
  \/ \E t \in Tasks : StepConnected(t)
  \/ \E t \in Tasks : StepMutex(t)
  \/ \E t \in Tasks : StepResponse(t)
  \/ \E s \in Socks : SockConnected(s)
  \/ \E s \in Socks : SockClose(s)
  \/ \E w \in wire : DeviceOk(w)
  \/ \E t \in Tasks : GraceEnd(t)
  \/ MutexTimer
  \/ \E t \in Tasks : KeepaliveTick(t)
  \/ Tock

SpecClose == InitHandshake /\ [][NextClose]_vars

\* One alarm event for channel 0 with a motion status
AlarmFrame ==
  [cmd |-> CmdAlarm,
   events |-> <<[has |-> {"channelId", "status"}, channelId |-> 0, status |-> StrMD,
                 AItype |-> StrOther]>>]

\* A new client created at StartTime
InitHealth ==
  /\ tk = [t \in Tasks |-> IdleTask]
  /\ loggedIn = FALSE
  /\ loginMutex = 0
  /\ nonce = FALSE /\ aesKey = FALSE /\ hashes = FALSE
  /\ conn = 0
  /\ sock = [s \in Socks |-> "unused"]
  /\ mpend = 0
  /\ wire = {}
  /\ pwdOk = TRUE
  /\ nonceW = 0 /\ loginW = 0
  /\ sub = [subscribed |-> FALSE, eventsActive |-> FALSE, timers |-> 0, due |-> 0,
            keepaliveTask |-> FALSE, unsub |-> FALSE,
            timeKeepaliveLoop |-> 0, timeConnectionLost |-> 0]
  /\ now = StartTime
  /\ push = [motion |-> [ch \in KnownChannels |-> FALSE],
             visitor |-> [ch \in KnownChannels |-> FALSE],
             ai |-> [ch \in KnownChannels |-> [k \in AiKeys |-> FALSE]],
             cb |-> EmptyMap, events |-> <<>>]
  /\ codec = NoCalls /\ web = NoCalls

\* Events are subscribed while time passes, the connection may be lost at any
\* moment and the device pushes alarm events, before and after the
\* subscription and the loss.
NextHealth ==
  \/ \E t \in 1..NSubscribers : CallSubscribe(t)
  \/ \E t \in Tasks : StepSubscribed(t)
  \/ \E t \in Tasks : StepEnter(t)
  \/ \E t \in Tasks : StepLogin(t)
  \/ \E t \in Tasks : StepConnected(t)
  \/ \E t \in Tasks : StepMutex(t)
  \/ \E t \in Tasks : StepResponse(t)
  \/ \E s \in Socks : SockConnected(s)
  \/ \E s \in Socks : SockClose(s)
  \/ \E w \in wire : DeviceOk(w)
  \/ \E t \in Tasks : GraceEnd(t)
  \/ MutexTimer
  \/ \E t \in Tasks : KeepaliveTick(t)
  \/ TockTo(StartTime + HealthSpan)
  \/ PushFrame(AlarmFrame)

SpecHealth == InitHealth /\ [][NextHealth]_vars

\* A new client on which events are subscribed and unsubscribed and logout
\* is called, in any interleaving, while time passes; the device answers
\* every request, and a connection closes when logout closes it.
LogoutClosed(s) == sock[s] = "closing" /\ SockClose(s)

NextUnsub ==
  \/ \E t \in Tasks : CallSubscribe(t)
  \/ \E t \in Tasks : CallUnsubscribe(t)
  \/ \E t \in Tasks : CallLogout(t)
  \/ \E t \in Tasks : StepSubscribed(t)
  \/ \E t \in Tasks : StepEnter(t)
  \/ \E t \in Tasks : StepLogin(t)
  \/ \E t \in Tasks : StepConnected(t)
  \/ \E t \in Tasks : StepMutex(t)
  \/ \E t \in Tasks : StepResponse(t)
  \/ \E t \in Tasks : StepLogoutClose(t)
  \/ \E t \in Tasks : StepLogoutDone(t)
  \/ \E s \in Socks : SockConnected(s)
  \/ \E s \in Socks : LogoutClosed(s)
  \/ \E w \in wire : DeviceOk(w)
  \/ \E t \in Tasks : GraceEnd(t)
  \/ MutexTimer
  \/ \E t \in Tasks : KeepaliveTick(t)
  \/ Tock

SpecUnsub == InitHandshake /\ [][NextUnsub]_vars

\* send(cmdId, null, "", "", AES, "1464", null, b): a call with retry budget b
CallSendBudget(t, c, b) ==
  /\ Fresh(t)
  /\ SetTk(t, [tk[t] EXCEPT !.top = "send", !.frame = "cmd", !.cmd = c,
                            !.mess = ResolveMess(NullCh), !.body = FALSE,
                            !.retry = b, !.budget = b, !.pc = "enter"])
  /\ UNCHANGED <<loggedIn, loginMutex, nonce, aesKey, hashes, conn, sock, mpend, wire,
                 pwdOk, nonceW, loginW>>
  /\ UNCHANGED evars

\* The budgets of the calls: the capability query passes 0, the default is
\* RETRY_ATTEMPTS
Budgets == {0, RETRY_ATTEMPTS}

\* What the event loop, the timers and the sockets do without a call of the
\* user, a reply of the device or a loss of the connection
Progress ==
  \/ \E t \in Tasks : StepEnter(t)
  \/ \E t \in Tasks : StepLogin(t)
  \/ \E t \in Tasks : StepConnected(t)
  \/ \E t \in Tasks : StepRace(t)
  \/ \E t \in Tasks : StepMutex(t)
  \/ \E t \in Tasks : StepResponse(t)
  \/ \E s \in Socks : SockConnected(s)
  \/ \E t \in Tasks : ResponseTimeout(t)
  \/ \E t \in Tasks : BusyTimer(t)
  \/ \E t \in Tasks : GraceEnd(t)
  \/ \E t \in Tasks : CleanupTick(t)
  \/ MutexTimer

\* A call of send() with either budget, and capability queries (budget 0,
\* made while logged in, as login() makes them).  The device answers a
\* command, reports busy or stays silent, and answers a handshake request
\* or stays silent; the connection may be lost while a command is pending.
NextBudget ==
  \/ \E t \in Tasks, b \in Budgets :
       (t > 1 => (b = 0 /\ loggedIn)) /\ CallSendBudget(t, CmdCapability, b)
  \/ \E s \in Socks :
       /\ \E t \in Tasks : tk[t].res = "pending" /\ tk[t].reg = s /\ tk[t].frame = "cmd"
       /\ SockClose(s)
  \/ \E w \in wire :
       \E rep \in (IF w.kind = "cmd" THEN Replies(w.kind) ELSE {OkReply(w.kind)}) :
         DeviceReply(w, rep)
  \/ Progress

\* Continuations run, timers fire and a connection attempt ends.
SpecBudget == InitSend /\ [][NextBudget]_vars /\ WF_vars(Progress)

\* send() with arguments a: "ok", "both" (a channel and an extension) or
\* "class" (a message class other than 1464 and 1465)
CallSendWith(t, c, ch, a) ==
  /\ Fresh(t)
  /\ a = "both" => ch # NullCh
  /\ SetTk(t, [tk[t] EXCEPT !.top = "send", !.frame = "cmd", !.cmd = c,
                            !.mess = ResolveMess(ch), !.body = TRUE, !.args = a,
                            !.retry = RETRY_ATTEMPTS, !.pc = "enter"])
  /\ UNCHANGED <<loggedIn, loginMutex, nonce, aesKey, hashes, conn, sock, mpend, wire,
                 pwdOk, nonceW, loginW>>
  /\ UNCHANGED evars

\* A new client on which login() and send() with valid and invalid
\* arguments are called; the device answers every request.
NextArgs ==
  \/ \E t \in Tasks : CallLogin(t)
  \/ \E t \in Callers, ch \in Channels, a \in {"ok", "both", "class"} :
       CallSendWith(t, CmdKeepalive, ch, a)
  \/ \E t \in Tasks : StepEnter(t)
  \/ \E t \in Tasks : StepLogin(t)
  \/ \E t \in Tasks : StepConnected(t)
  \/ \E t \in Tasks : StepMutex(t)
  \/ \E t \in Tasks : StepResponse(t)
  \/ \E s \in Socks : SockConnected(s)
  \/ \E w \in wire : DeviceOk(w)
  \/ MutexTimer

SpecArgs == InitHandshake /\ [][NextArgs]_vars

\* The logged-in client on which keepalive requests are sent while the
\* connection may be lost and a new connection may fail to open; the device
\* answers every request it receives.
NextConnect ==
  \/ \E t \in Callers : CallSend(t, CmdKeepalive, NullCh, FALSE)
  \/ \E t \in Tasks : StepEnter(t)
  \/ \E t \in Tasks : StepLogin(t)
  \/ \E t \in Tasks : StepConnected(t)
  \/ \E t \in Tasks : StepConnFail(t)
  \/ \E t \in Tasks : StepRace(t)
  \/ \E t \in Tasks : StepMutex(t)
  \/ \E t \in Tasks : StepResponse(t)
  \/ \E s \in Socks : SockConnected(s)
  \/ \E s \in Socks : SockConnectFail(s)
  \/ \E s \in Socks : SockClose(s)
  \/ \E w \in wire : DeviceOk(w)
  \/ \E t \in Tasks : GraceEnd(t)
  \/ MutexTimer

SpecConnect == InitSend /\ [][NextConnect]_vars

\* ----------------------------------------------------------------- ciphers
\* Texts are sequences of characters and buffers are sequences of bytes.  A
\* byte has ByteSize values.  The characters below AsciiLimit are encoded in
\* one byte, the others in two: a lead byte and a continuation byte.
MaxLen == 3
ByteSize == 8
AsciiLimit == 4
Byte == 0..(ByteSize - 1)
Chars == 0..(ByteSize - 1)
ContBase == AsciiLimit + (ByteSize - AsciiLimit) \div 2

\* U+FFFD, what the decoder puts in place of an ill-formed sequence
ReplacementChar == ByteSize - 1

SeqsUpTo(S, n) == UNION {[1..k -> S] : k \in 0..n}
Texts == SeqsUpTo(Chars, MaxLen)

Bit(a, i) == (a \div (2 ^ i)) % 2
Xor(a, b) == LET RECURSIVE X(_)
                 X(i) == IF 2 ^ i >= ByteSize THEN 0
                         ELSE ((Bit(a, i) + Bit(b, i)) % 2) * (2 ^ i) + X(i + 1)
             IN X(0)

\* Buffer.from(text, "utf8") / cipher.update(body, "utf8")
EncodeChar(c) ==
  IF c < AsciiLimit THEN <<c>>
  ELSE <<AsciiLimit + ((c - AsciiLimit) \div (ByteSize - ContBase)),
         ContBase + ((c - AsciiLimit) % (ByteSize - ContBase))>>

RECURSIVE Utf8(_)
Utf8(text) == IF text = <<>> THEN <<>> ELSE EncodeChar(Head(text)) \o Utf8(Tail(text))

\* buffer.toString("utf8"): ill-formed bytes decode to U+FFFD
RECURSIVE Utf8Decode(_)
Utf8Decode(b) ==
  IF b = <<>> THEN <<>>
  ELSE IF b[1] < AsciiLimit THEN <<b[1]>> \o Utf8Decode(Tail(b))
  ELSE IF b[1] < ContBase /\ Len(b) >= 2 /\ b[2] >= ContBase
  THEN <<AsciiLimit + (b[1] - AsciiLimit) * (ByteSize - ContBase) + (b[2] - ContBase)>>
       \o Utf8Decode(Tail(Tail(b)))
  ELSE <<ReplacementChar>> \o Utf8Decode(Tail(b))

\* text.length: every character of the alphabet is one UTF-16 code unit
StrLen(text) == Len(text)

\* The block cipher under "aes-128-cfb": a keyed function on blocks
BlockLen == 2
NoKey == 0
Keys == {3, 5}
AES_IV == [i \in 1..BlockLen |-> i - 1]
BlockE(k, b) == [i \in 1..BlockLen |->
                   (b[i] * 3 + b[(i % BlockLen) + 1] + k * i + 1) % ByteSize]

XorSeq(a, ks) == [i \in 1..Len(a) |-> Xor(a[i], ks[i])]
Take(q, n) == SubSeq(q, 1, IF Len(q) < n THEN Len(q) ELSE n)
Drop(q, n) == SubSeq(q, n + 1, Len(q))
\* the feedback register after a block: the ciphertext shifted in
Feed(fb, c) == Drop(fb \o c, Len(c))

\* createCipheriv("aes-128-cfb", key, iv) with setAutoPadding(false):
\* update() and final() over the plaintext bytes
RECURSIVE CfbEncrypt(_, _, _)
CfbEncrypt(k, fb, p) ==
  IF p = <<>> THEN <<>>
  ELSE LET c == XorSeq(Take(p, BlockLen), BlockE(k, fb))
       IN c \o CfbEncrypt(k, Feed(fb, c), Drop(p, BlockLen))

\* createDecipheriv("aes-128-cfb", key, iv) with setAutoPadding(false)
RECURSIVE CfbDecrypt(_, _, _)
CfbDecrypt(k, fb, c) ==
  IF c = <<>> THEN <<>>
  ELSE LET h == Take(c, BlockLen)
       IN XorSeq(h, BlockE(k, fb)) \o CfbDecrypt(k, Feed(fb, h), Drop(c, BlockLen))

\* The result of a call: a value, or the error it threw
Ok(v) == [err |-> "none", val |-> v]
Raise(e) == [err |-> e, val |-> <<>>]

\* An encryption that pads the plaintext to whole blocks
AesEncryptPadded(body, key) ==
  IF body = <<>> THEN Ok(<<>>)
  ELSE IF key = NoKey THEN Raise("InvalidParameter")
  ELSE LET p == Utf8(body)
           n == (BlockLen - (Len(p) % BlockLen)) % BlockLen
       IN Ok(CfbEncrypt(key, AES_IV, p \o [i \in 1..n |-> n]))

\* aesEncrypt(body)
AesEncrypt(body, key) ==
  IF body = <<>> THEN Ok(<<>>)
  ELSE IF key = NoKey THEN Raise("InvalidParameter")
  ELSE Ok(CfbEncrypt(key, AES_IV, Utf8(body)))

\* aesDecrypt(data, header)
AesDecrypt(data, key) ==
  IF key = NoKey THEN Raise("InvalidParameter")
  ELSE Ok(Utf8Decode(CfbDecrypt(key, AES_IV, data)))

\* The legacy cipher: each byte is combined with a key byte chosen by the
\* offset and the position, and with the offset itself
XML_KEY == <<7, 5, 3, 6>>
Offsets == {0, 1}
BcStream(n, offset) ==
  [i \in 1..n |-> Xor(XML_KEY[((offset + i - 1) % Len(XML_KEY)) + 1], offset % ByteSize)]
EncryptBaichuan(text, offset) ==
  LET p == Utf8(text) IN XorSeq(p, BcStream(Len(p), offset))
DecryptBaichuan(buf, offset) ==
  Utf8Decode(XorSeq(buf, BcStream(Len(buf), offset)))

\* The engine at rest: a new client on which nothing is called
InitIdle ==
  /\ tk = [t \in Tasks |-> IdleTask]
  /\ loggedIn = FALSE
  /\ loginMutex = 0
  /\ nonce = FALSE /\ aesKey = FALSE /\ hashes = FALSE
  /\ conn = 0
  /\ sock = [s \in Socks |-> "unused"]
  /\ mpend = 0
  /\ wire = {}
  /\ pwdOk = TRUE
  /\ nonceW = 0 /\ loginW = 0
  /\ sub = [subscribed |-> FALSE, eventsActive |-> FALSE, timers |-> 0, due |-> 0,
            keepaliveTask |-> FALSE, unsub |-> FALSE,
            timeKeepaliveLoop |-> 0, timeConnectionLost |-> 0]
  /\ now = 0
  /\ push = [motion |-> [ch \in KnownChannels |-> FALSE],
             visitor |-> [ch \in KnownChannels |-> FALSE],
             ai |-> [ch \in KnownChannels |-> [k \in AiKeys |-> FALSE]],
             cb |-> EmptyMap, events |-> <<>>]

\* The variables of the Baichuan client
bvars == <<tk, loggedIn, loginMutex, nonce, aesKey, hashes, conn, sock, mpend,
           wire, pwdOk, nonceW, loginW, sub, now, push>>

\* A text, a key (or none) and an offset; the cipher functions are applied
\* to them.
InitCipher ==
  /\ InitIdle
  /\ web = NoCalls
  /\ codec \in [op : {"input"}, text : Texts, key : Keys \cup {NoKey}, offset : Offsets,
                data : {<<>>}, out : {<<>>}, err : {"none"}]

CipherStep(to, r, isText) ==
  /\ codec' = [codec EXCEPT !.op = to, !.err = r.err,
                            !.data = IF isText THEN @ ELSE r.val,
                            !.out = IF isText THEN r.val ELSE @]
  /\ UNCHANGED <<bvars, web>>

\* aesEncrypt(text)
CallAesEncrypt ==
  /\ codec.op = "input"
  /\ CipherStep("aesEncrypt", AesEncrypt(codec.text, codec.key), FALSE)

\* aesDecrypt() of what aesEncrypt() returned
CallAesDecrypt ==
  /\ codec.op = "aesEncrypt" /\ codec.err = "none"
  /\ CipherStep("aesDecrypt", AesDecrypt(codec.data, codec.key), TRUE)

\* aesDecrypt() of received bytes: the bytes of the text
CallAesDecryptRaw ==
  /\ codec.op = "input"
  /\ CipherStep("aesDecryptRaw", AesDecrypt(Utf8(codec.text), codec.key), TRUE)

\* encryptBaichuan(text, offset)
CallEncryptBaichuan ==
  /\ codec.op = "input"
  /\ CipherStep("encryptBaichuan", Ok(EncryptBaichuan(codec.text, codec.offset)), FALSE)

\* decryptBaichuan() of what encryptBaichuan() returned
CallDecryptBaichuan ==
  /\ codec.op = "encryptBaichuan"
  /\ CipherStep("decryptBaichuan", Ok(DecryptBaichuan(codec.data, codec.offset)), TRUE)

NextCipher ==
  \/ CallAesEncrypt
  \/ CallAesDecrypt
  \/ CallAesDecryptRaw
  \/ CallEncryptBaichuan
  \/ CallDecryptBaichuan

SpecCipher == InitCipher /\ [][NextCipher]_vars

\* ----------------------------------------------------------------- decrypt
\* "<?xml", the first characters of every XML body
Prologue == <<1, 2>>
StartsWith(text, p) == Len(text) >= Len(p) /\ SubSeq(text, 1, Len(p)) = p

\* Header lengths, the values of the header's encoding field, and the
\* encoding types of a request
HeaderLens == {20, 24}
RecEncTypes == {"01dd", "12dd", "02dd", "03dd", "00dd", "c800"}
EncTypes == {"BC", "AES"}
Payloads == SeqsUpTo(Byte, MaxLen)

\* The body a decoding attempt left in recBody, with the attempts made
Body(v, tried) == [err |-> "none", val |-> v, tried |-> tried]
Fail(e, tried) == [err |-> e, val |-> <<>>, tried |-> tried]

\* decrypt(): the first decoding, chosen by the header and the request
FirstDecode(f) ==
  LET bc == DecryptBaichuan(f.encBody, f.recEncOffset)
      plain == Utf8Decode(f.encBody)
      aes == AesDecrypt(f.encBody, f.key)
  IN
  IF (f.lenHeader = 20 /\ f.recEncType \in {"01dd", "12dd"}) \/ f.encType = "BC"
  THEN Body(bc, <<"bc">>)
  ELSE IF (f.lenHeader = 20 /\ f.recEncType \in {"02dd", "03dd"})
          \/ (f.lenHeader = 24 /\ f.key # NoKey)
  THEN IF aes.err # "none" THEN Body(bc, <<"aes", "bc">>)
       ELSE IF ~StartsWith(aes.val, Prologue) THEN Body(bc, <<"aes", "bc">>)
       ELSE Body(aes.val, <<"aes">>)
  ELSE IF f.recEncType = "00dd" \/ f.lenHeader = 24
  THEN IF ~StartsWith(bc, Prologue) THEN Body(plain, <<"bc", "plain">>)
       ELSE Body(bc, <<"bc">>)
  ELSE Fail("InvalidContentType", <<>>)

\* decrypt(): the final validation of recBody
FinalValidation(f, r) ==
  LET bc == DecryptBaichuan(f.encBody, f.recEncOffset)
      plain == Utf8Decode(f.encBody)
      r1 == IF f.recEncType = "00dd" THEN Body(plain, Append(r.tried, "plain")) ELSE r
      r2 == IF ~StartsWith(r1.val, Prologue) THEN Body(bc, Append(r1.tried, "bc")) ELSE r1
  IN
  IF r.err # "none" \/ StartsWith(r.val, Prologue) THEN r
  ELSE IF ~StartsWith(r2.val, Prologue) THEN Fail("UnexpectedData", r2.tried)
  ELSE r2

\* decrypt() that returns what the first decoding produced
DecryptUnchecked(f) ==
  IF f.encBody = <<>> THEN Body(<<>>, <<>>)
  ELSE FirstDecode(f)

\* decrypt(data, lenHeader, cmdId, encType)
Decrypt(f) ==
  IF f.encBody = <<>> THEN Body(<<>>, <<>>)
  ELSE FinalValidation(f, FirstDecode(f))

\* An inbound frame, the encoding type of its request and the key of the
\* session; decrypt() is applied to it.
InitDecrypt ==
  /\ InitIdle
  /\ web = NoCalls
  /\ codec \in [op : {"input"}, lenHeader : HeaderLens, recEncType : RecEncTypes,
                encType : EncTypes, key : Keys \cup {NoKey}, recEncOffset : Offsets,
                encBody : Payloads, res : {Body(<<>>, <<>>)}]

CallDecrypt ==
  /\ codec.op = "input"
  /\ codec' = [codec EXCEPT !.op = "decrypt", !.res = Decrypt(codec)]
  /\ UNCHANGED <<bvars, web>>

NextDecrypt == CallDecrypt

SpecDecrypt == InitDecrypt /\ [][NextDecrypt]_vars

\* ----------------------------------------------------------------- framing
MaxExt == 1
Extensions == SeqsUpTo(Chars, MaxExt)
MessageClasses == {"1465", "1464"}

\* The bytes of the header: magic, cmdId, messLen, messId, encrypt marker or
\* status code, message class and, for class 1464, payloadOffset
HeaderLen(messageClass) ==
  IF messageClass = "1465" THEN 4 + 4 + 4 + 4 + 2 + 2 ELSE 4 + 4 + 4 + 4 + 2 + 2 + 4

\* send(): the two encrypted parts of the payload
EncParts(f) ==
  IF f.encType = "BC"
  THEN [err |-> "none", ext |-> EncryptBaichuan(f.ext, f.messId),
        body |-> EncryptBaichuan(f.body, f.messId)]
  ELSE LET e == AesEncrypt(f.ext, f.key)
           b == AesEncrypt(f.body, f.key)
       IN IF e.err # "none" THEN [err |-> e.err, ext |-> <<>>, body |-> <<>>]
          ELSE [err |-> b.err, ext |-> e.val, body |-> b.val]

\* send(): from the lengths to the frame handed to the socket
BuildFrame(f) ==
  LET messLen == StrLen(f.ext) + StrLen(f.body)
      payloadOffset == StrLen(f.ext)
      parts == IF messLen > 0 THEN EncParts(f)
               ELSE [err |-> "none", ext |-> <<>>, body |-> <<>>]
  IN [err |-> parts.err, headerLen |-> HeaderLen(f.messageClass), messLen |-> messLen,
      payloadOffset |-> payloadOffset, encExt |-> parts.ext, encBody |-> parts.body]

\* An extension, a body, an encoding type, a message class, a key and a
\* message id; send() builds the frame.
InitFrame ==
  /\ InitIdle
  /\ web = NoCalls
  /\ codec \in [op : {"input"}, ext : Extensions, body : Texts, encType : EncTypes,
                messageClass : MessageClasses, key : Keys \cup {NoKey}, messId : Offsets,
                res : {[err |-> "none", headerLen |-> 0, messLen |-> 0, payloadOffset |-> 0,
                        encExt |-> <<>>, encBody |-> <<>>]}]

CallBuildFrame ==
  /\ codec.op = "input"
  /\ codec' = [codec EXCEPT !.op = "frame", !.res = BuildFrame(codec)]
  /\ UNCHANGED <<bvars, web>>

NextFrame == CallBuildFrame

SpecFrame == InitFrame /\ [][NextFrame]_vars

\* -------------------------------------------------------------- Host (HTTP)
NHostCalls == 2
MaxClock == 3
HostTasks == 1..NHostCalls

\* cacheTTL, in ticks of the model's clock
CacheTTL == 2

\* JSON.stringify(body) of the requests, and the response types
Bodies == {"GetDevInfo", "GetEnc"}
ResponseTypes == {"json", "image/jpeg"}

\* A param argument: null, or an object as the sequence of its properties
NullParam == [null |-> TRUE, fields |-> <<>>]
Obj(fields) == [null |-> FALSE, fields |-> fields]
CallerParams == {NullParam, Obj(<< <<"cmd", "Search">> >>)}
NoToken == "null"
Tokens == {"token-1"}

\* JSON.stringify(param)
RECURSIVE Flatten(_)
Flatten(fields) ==
  IF fields = <<>> THEN <<>> ELSE <<Head(fields)[1], Head(fields)[2]>> \o Flatten(Tail(fields))
Stringify(param) == <<"{">> \o Flatten(param.fields) \o <<"}">>

\* getCacheKey(body, param)
GetCacheKey(body, param) ==
  <<body, ":">> \o (IF param.null THEN <<>> ELSE Stringify(param))

\* sendChunk(): "if (!param) param = {}" and "param.token = this.token"
BuildParams(param, token) ==
  LET q == IF param.null THEN Obj(<<>>) ELSE param
  IN IF token # NoToken THEN Obj(Append(q.fields, <<"token", token>>)) ELSE q

\* Map.set and the empty Map
CacheSet(c, k, v) == [x \in DOMAIN c \cup {k} |-> IF x = k THEN v ELSE c[x]]
EmptyCache == [x \in {} |-> 0]

IdleHost ==
  [pc |-> "idle", viaSend |-> FALSE, body |-> "", param |-> NullParam, rtype |-> "json",
   mAwait |-> 0, held |-> FALSE, lAwait |-> 0, lheld |-> FALSE, sent |-> NullParam,
   out |-> "none"]

\* The call whose sendChunk() / login() created the current mutex promise
\* and has not released it; 0 = the promise is resolved
SendHolder == IF web.sendMutex # 0 /\ web.hk[web.sendMutex].held THEN web.sendMutex ELSE 0
LoginHolder == IF web.loginMutex # 0 /\ web.hk[web.loginMutex].lheld THEN web.loginMutex ELSE 0

\* A continuation is queued as a microtask
HostRunnable(t) ==
  \/ web.hk[t].pc = "mutexWait" /\ web.hk[t].mAwait = 0
  \/ web.hk[t].pc = "loginWait" /\ web.hk[t].lAwait = 0
HostQuiet == \A t \in HostTasks : ~HostRunnable(t)
HostFresh(t) ==
  /\ web.hk[t].pc = "idle"
  /\ \A u \in HostTasks : u < t => web.hk[u].pc # "idle"

\* releaseMutex() of sendChunk() / login(): the calls that await the promise
\* of t may continue
ReleaseSend(h, t) ==
  [u \in HostTasks |-> IF u = t THEN [h[u] EXCEPT !.held = FALSE]
                        ELSE IF h[u].mAwait = t THEN [h[u] EXCEPT !.mAwait = 0] ELSE h[u]]
ReleaseLogin(h, t) ==
  [u \in HostTasks |-> IF u = t THEN [h[u] EXCEPT !.lheld = FALSE]
                        ELSE IF h[u].lAwait = t THEN [h[u] EXCEPT !.lAwait = 0] ELSE h[u]]

\* sendChunk() up to "await this.sendMutex"
SendChunkCall(t, body, param, rtype, via) ==
  [web.hk[t] EXCEPT !.pc = "mutexWait", !.viaSend = via, !.body = body, !.param = param,
                    !.rtype = rtype, !.mAwait = SendHolder]

\* sendChunk() called directly
CallSendChunk(t, body, param, rtype) ==
  /\ web.op = "host" /\ HostFresh(t)
  /\ web' = [web EXCEPT !.hk[t] = SendChunkCall(t, body, param, rtype, FALSE)]
  /\ UNCHANGED <<bvars, codec>>

\* Host.send(body, param, expectedResponseType): the cache lookup, then
\* sendChunk().  The bodies of the model are below MAX_CHUNK_ITEMS and the
\* cache is below the size at which expired entries are removed.
CallHostSend(t, body, param, rtype) ==
  LET cacheKey == GetCacheKey(body, param)
      hit == /\ web.cacheEnabled /\ rtype = "json"
             /\ cacheKey \in DOMAIN web.cache
             /\ web.time - web.cache[cacheKey] < CacheTTL
  IN
  /\ web.op = "host" /\ HostFresh(t)
  /\ web' = [web EXCEPT !.hk[t] =
               IF hit THEN [@ EXCEPT !.pc = "done", !.viaSend = TRUE, !.body = body,
                                     !.param = param, !.rtype = rtype, !.out = "cached"]
               ELSE SendChunkCall(t, body, param, rtype, TRUE)]
  /\ UNCHANGED <<bvars, codec>>

\* sendChunk(): the request is posted with the params built from the token
Posted(r, token) == [r EXCEPT !.pc = "postWait", !.sent = BuildParams(r.param, token)]

\* sendChunk() after "await this.sendMutex": the new mutex promise, then
\* login() up to "await this.loginMutex", or the post
StepSendMutex(t) ==
  LET r == [web.hk[t] EXCEPT !.held = TRUE] IN
  /\ web.op = "host"
  /\ web.hk[t].pc = "mutexWait" /\ web.hk[t].mAwait = 0
  /\ web' = [web EXCEPT !.sendMutex = t,
                        !.hk[t] = IF web.token = NoToken
                                  THEN [r EXCEPT !.pc = "loginWait", !.lAwait = LoginHolder]
                                  ELSE Posted(r, web.token)]
  /\ UNCHANGED <<bvars, codec>>

\* login() after "await this.loginMutex": with a valid token it returns and
\* sendChunk() posts its request, otherwise the login request is posted
StepHostLogin(t) ==
  LET r == [web.hk[t] EXCEPT !.lheld = TRUE] IN
  /\ web.op = "host"
  /\ web.hk[t].pc = "loginWait" /\ web.hk[t].lAwait = 0
  /\ IF web.token # NoToken
     THEN web' = [web EXCEPT !.loginMutex = t,
                            !.hk = ReleaseLogin([web.hk EXCEPT ![t] = Posted(r, web.token)], t)]
     ELSE web' = [web EXCEPT !.loginMutex = t, !.hk[t] = [r EXCEPT !.pc = "loginPost"]]
  /\ UNCHANGED <<bvars, codec>>

\* The response to the login request: the token is stored and sendChunk()
\* posts its request, or login() throws and sendChunk() releases its mutex
HostLoginReply(t, token) ==
  /\ web.op = "host" /\ HostQuiet
  /\ web.hk[t].pc = "loginPost"
  /\ IF token # NoToken
     THEN web' = [web EXCEPT !.token = token,
                            !.hk = ReleaseLogin([web.hk EXCEPT ![t] = Posted(@, token)], t)]
     ELSE web' = [web EXCEPT !.hk = ReleaseSend(ReleaseLogin(
                                [web.hk EXCEPT ![t] = [@ EXCEPT !.pc = "done", !.out = "LoginError"]],
                                t), t)]
  /\ UNCHANGED <<bvars, codec>>

\* What the device answers to a request
HostReplies == {"data", "empty", "status400", "loginFirst"}

\* The response to the post of sendChunk(): errors, the cache entry, the
\* return value, and releaseMutex() in the finally block
HostReply(t, reply) ==
  LET r == web.hk[t]
      json == r.rtype = "json"
      out == CASE reply = "status400" -> "ApiError"
               [] reply = "data" -> "ok"
               [] reply = "empty" -> IF json THEN "NoDataError" ELSE "ok"
               [] reply = "loginFirst" -> IF json THEN "LoginError" ELSE "ok"
      store == reply = "data" /\ json /\ web.cacheEnabled
  IN
  /\ web.op = "host" /\ HostQuiet
  /\ r.pc = "postWait"
  /\ web' = [web EXCEPT
       !.hk = ReleaseSend([web.hk EXCEPT ![t] = [r EXCEPT !.pc = "done", !.out = out]], t),
       !.token = IF reply = "loginFirst" /\ json THEN NoToken ELSE @,
       !.cache = IF store THEN CacheSet(@, GetCacheKey(r.body, r.sent), web.time) ELSE @,
       !.answered = IF store /\ r.viaSend
                    THEN CacheSet(@, GetCacheKey(r.body, r.param), web.time) ELSE @]
  /\ UNCHANGED <<bvars, codec>>

\* Date.now() advances
HostTick ==
  /\ web.op = "host" /\ HostQuiet
  /\ web.time < MaxClock
  /\ web' = [web EXCEPT !.time = @ + 1]
  /\ UNCHANGED <<bvars, codec>>

\* clearCache()
CallClearCache ==
  /\ web.op = "host"
  /\ web.cache # EmptyCache \/ web.answered # EmptyCache
  /\ web' = [web EXCEPT !.cache = EmptyCache, !.answered = EmptyCache]
  /\ UNCHANGED <<bvars, codec>>

\* setCacheEnabled(enabled)
CallSetCacheEnabled(enabled) ==
  /\ web.op = "host"
  /\ web.cacheEnabled # enabled
  /\ web' = [web EXCEPT !.cacheEnabled = enabled,
                        !.cache = IF enabled THEN @ ELSE EmptyCache,
                        !.answered = IF enabled THEN @ ELSE EmptyCache]
  /\ UNCHANGED <<bvars, codec>>

\* A Host with or without a session token, the cache enabled and empty.
\* answered records, per request as the caller made it, when Host.send last
\* fetched its response from the device with caching enabled.
InitHost ==
  /\ InitIdle
  /\ codec = NoCalls
  /\ web \in [op : {"host"}, hk : {[t \in HostTasks |-> IdleHost]}, sendMutex : {0},
              loginMutex : {0}, token : Tokens \cup {NoToken}, cacheEnabled : {TRUE},
              cache : {EmptyCache}, answered : {EmptyCache}, time : {0}]

NextHost ==
  \/ \E t \in HostTasks, b \in Bodies, q \in CallerParams, y \in ResponseTypes :
       CallHostSend(t, b, q, y)
  \/ \E t \in HostTasks, b \in Bodies : CallSendChunk(t, b, NullParam, "json")
  \/ \E t \in HostTasks : StepSendMutex(t)
  \/ \E t \in HostTasks : StepHostLogin(t)
  \/ \E t \in HostTasks, k \in Tokens \cup {NoToken} : HostLoginReply(t, k)
  \/ \E t \in HostTasks, r \in HostReplies : HostReply(t, r)
  \/ HostTick
  \/ CallClearCache
  \/ \E e \in BOOLEAN : CallSetCacheEnabled(e)

SpecHost == InitHost /\ [][NextHost]_vars

\* ------------------------------------------------------------------ claims
\* C1: concurrent login() calls on a logged-out client, against a device that
\* answers the handshake successfully, write one nonce request and one login
\* request in total.
C1_SingleHandshake == nonceW <= 1 /\ loginW <= 1

\* C2: two login() calls that overlap complete with the same outcome.
C2_SameOutcome ==
  \A t, u \in Tasks :
    (/\ pwdOk
     /\ tk[t].top = "login" /\ tk[t].pc = "done"
     /\ tk[u].top = "login" /\ tk[u].pc = "done"
     /\ u \in tk[t].during)
    => tk[t].out = tk[u].out

\* C3: a send() called while a request with its (cmdId, messId) is outstanding
\* has not written its bytes as long as that request is unresolved and its
\* own wait for it has not timed out.
C3_WaitsForOutstanding ==
  \A t \in Tasks : tk[t].pc = "respWait" => tk[t].prior = {}

\* C4: the pending table of a connection never holds two unresolved entries
\* for one (cmdId, messId).
C4_OnePerKey ==
  \A t, u \in Tasks :
    (t # u /\ tk[t].res = "pending" /\ tk[u].res = "pending" /\ tk[t].reg = tk[u].reg)
    => <<FCmd(tk[t]), FMess(tk[t])>> # <<FCmd(tk[u]), FMess(tk[u])>>

\* C5: a send() of a command other than logout never writes its request more
\* than RETRY_ATTEMPTS times, and when every attempt ended in a response
\* timeout it has written it RETRY_ATTEMPTS times and fails with TimeoutError.
C5_TimeoutBudget ==
  \A t \in Tasks :
    (tk[t].top = "send" /\ tk[t].cmd # CmdLogout)
    => /\ tk[t].writes <= RETRY_ATTEMPTS
       /\ (tk[t].pc = "done" /\ tk[t].onlyTmo /\ tk[t].out = "Timeout")
            => tk[t].writes = RETRY_ATTEMPTS

C5_Witness ==
  \E t \in Tasks :
    /\ tk[t].top = "send" /\ tk[t].cmd = CmdKeepalive /\ tk[t].pc = "done"
    /\ tk[t].onlyTmo /\ tk[t].out = "Timeout" /\ tk[t].writes = RETRY_ATTEMPTS

\* C6, as stated: a send() of the logout command writes its request at most
\* once.
C6_LogoutWrittenOnce ==
  \A t \in Tasks : tk[t].cmd = CmdLogout => tk[t].writes <= 1

\* C6, amended: a send() of the logout command starts another attempt only
\* after the busy status 400, never after a timeout or a transport error, and
\* writes its request at most RETRY_ATTEMPTS times.
C6_LogoutRetriesOnlyBusy ==
  [][\A t \in Tasks :
       tk[t].cmd = CmdLogout
       => /\ tk'[t].writes <= RETRY_ATTEMPTS
          /\ (tk[t].pc = "respWait" /\ tk'[t].pc \in {"enter", "busy"})
               => tk[t].res = "Api400"]_vars

C6_Witness ==
  \E t \in Tasks : tk[t].cmd = CmdLogout /\ tk[t].pc = "respWait" /\ tk[t].writes = 2

\* C7: once every call has returned or thrown, no pending entry is left.
C7_NoLeak ==
  (\A t \in Tasks : tk[t].pc \in {"idle", "done"})
  => \A t \in Tasks : tk[t].res # "pending"

\* C8: no caller waits for the response to a request whose connection is
\* closed.
C8_NoWaitOnClosed ==
  \A t \in Tasks :
    (tk[t].pc = "respWait" /\ tk[t].res = "pending") => sock[tk[t].reg] = "open"

\* C9: an alarm event (command 33) for a known channel whose status string
\* contains the motion marker MD sets the motion flag of that channel, and
\* then the callbacks registered for (33, that channel) are invoked in their
\* order, followed by those registered for (33, any channel).
C9_MotionDispatch ==
  \A i \in 1..Len(push.events) :
    LET x == push.events[i]
        e == x.ev
        marker == \E k \in 1..(Len(e.status) - 1) : e.status[k] = "M" /\ e.status[k + 1] = "D"
        ids(ch) == IF CmdAlarm \in DOMAIN push.cb /\ ch \in DOMAIN push.cb[CmdAlarm]
                   THEN [k \in 1..Len(push.cb[CmdAlarm][ch]) |-> <<ch, push.cb[CmdAlarm][ch][k]>>]
                   ELSE <<>>
    IN ("channelId" \in e.has /\ e.channelId \in KnownChannels /\ "status" \in e.has /\ marker)
       => /\ x.motion
          /\ [k \in 1..Len(x.calls) |-> <<x.calls[k].ch, x.calls[k].id>>]
               = ids(e.channelId) \o ids(NullCh)
          /\ \A k \in 1..Len(x.calls) : x.calls[k].cmd = CmdAlarm

C9_Witness ==
  \E i \in 1..Len(push.events) :
    LET x == push.events[i] IN
    /\ "status" \in x.ev.has /\ x.ev.status = StrMDVisitor /\ x.handled
    /\ x.motion /\ push.motion[x.ev.channelId]
    /\ Len(x.calls) = 2 /\ x.calls[1].ch = x.ev.channelId /\ x.calls[2].ch = NullCh

C11_NoKeepaliveAfterUnsubscribe ==
  [][(\E t \in Tasks : tk[t].pc = "idle" /\ tk'[t].top = "keepalive") => ~sub.unsub]_vars

\* C12: logout() called while a subscription is active returns at once: it
\* starts no send, writes nothing, closes no socket and leaves loggedIn, the
\* session secret, the transport handle and the subscription state (flags,
\* timers) unchanged.
C12_LogoutGuard ==
  [][\A t \in Tasks :
       (tk[t].pc = "idle" /\ tk'[t].top = "logout" /\ sub.subscribed)
       => /\ tk'[t].pc = "done" /\ tk'[t].res # "pending" /\ tk'[t].writes = 0
          /\ UNCHANGED <<loggedIn, nonce, aesKey, hashes, conn, sock, wire, sub,
                         nonceW, loginW, mpend>>]_vars

C12_Witness ==
  /\ tk[1].top = "fire31" /\ tk[2].top = "keepalive"
  /\ tk[3].top = "logout" /\ tk[3].pc = "done"
  /\ sub.subscribed /\ sub.eventsActive /\ sub.timers = 1 /\ sub.keepaliveTask
  /\ loggedIn /\ nonce /\ aesKey /\ hashes /\ conn # 0 /\ sock[conn] = "open"

\* C13: when logout() returns on a client that is not subscribed it returns
\* normally, whatever became of its logout command, and the client is then
\* logged out, events are inactive, the transport and protocol handles are
\* null and nonce, AES key and both hashes are unset.
C13_LogoutClears ==
  [][\A t \in Tasks :
       (tk[t].top = "logout" /\ tk[t].pc # "done" /\ tk'[t].pc = "done")
       => /\ tk'[t].out = "ok"
          /\ ~loggedIn' /\ ~sub'.eventsActive /\ conn' = 0
          /\ ~nonce' /\ ~aesKey' /\ ~hashes']_vars

C13_Witness ==
  \E t \in Tasks :
    /\ tk[t].top = "logout" /\ tk[t].pc = "done" /\ tk[t].out = "ok"
    /\ tk[t].caught = "Timeout" /\ tk[t].writes = 1
    /\ ~loggedIn /\ conn = 0 /\ ~nonce /\ ~aesKey /\ ~hashes

\* C14: when a connection closes the session becomes logged out and events
\* become inactive; the time of the loss is recorded if a subscription is
\* active at that moment and left as it was otherwise; the step opens no
\* socket, writes nothing and starts no call.
C14_CloseHandler ==
  [][(\E s \in Socks : sock[s] \in {"open", "closing"} /\ sock'[s] = "closed")
     => /\ ~loggedIn' /\ ~sub'.eventsActive
        /\ sub'.timeConnectionLost = IF sub.subscribed THEN now ELSE sub.timeConnectionLost
        /\ \A s \in Socks : sock[s] \in {"unused", "connecting"} => sock'[s] = sock[s]
        /\ wire' \subseteq wire /\ conn' = conn
        /\ nonceW' = nonceW /\ loginW' = loginW
        /\ \A t \in Tasks : /\ tk'[t].writes = tk[t].writes
                              /\ tk'[t].pc = tk[t].pc]_vars

C14_Witness ==
  /\ sub.subscribed /\ now > 0 /\ sub.timeConnectionLost = now
  /\ ~loggedIn /\ ~sub.eventsActive /\ conn # 0 /\ sock[conn] = "closed"

\* C15: the internal events flag is set only while subscribed, and the
\* health predicate eventsActive is true only if the subscription is active
\* and more than 120 s have passed since the last recorded connection loss,
\* whatever has set the flag again in between.
C15_HealthPredicate ==
  /\ sub.eventsActive => sub.subscribed
  /\ EventsActiveValue
       => sub.subscribed /\ now - sub.timeConnectionLost > GraceTicks

C15_Witness ==
  /\ sub.subscribed /\ sub.eventsActive /\ sub.timeConnectionLost >= StartTime
  /\ now > sub.timeConnectionLost /\ now - sub.timeConnectionLost <= GraceTicks
  /\ ~EventsActiveValue /\ Len(push.events) = 1

\* C16: an interval timer is armed if and only if subscribed is true, and at
\* most one interval timer is armed.
C16_TimerIffSubscribed ==
  /\ (sub.timers > 0) <=> sub.subscribed
  /\ sub.timers <= 1

\* C17: subscribeEvents() called while subscribed returns at once: it starts
\* no login and no send, arms no timer, writes nothing and leaves loggedIn
\* and the subscription state unchanged.
C17_SubscribeIdempotent ==
  [][\A t \in Tasks :
       (tk[t].pc = "idle" /\ tk'[t].top = "subscribe" /\ sub.subscribed)
       => /\ tk'[t].pc = "done" /\ tk'[t].out = "ok" /\ tk'[t].writes = 0
          /\ sub'.subscribed = sub.subscribed /\ sub'.eventsActive = sub.eventsActive
          /\ sub'.timers = sub.timers /\ sub'.due = sub.due
          /\ sub'.keepaliveTask = sub.keepaliveTask
          /\ sub'.timeKeepaliveLoop = sub.timeKeepaliveLoop
          /\ sub'.timeConnectionLost = sub.timeConnectionLost
          /\ UNCHANGED <<loggedIn, loginMutex, nonce, aesKey, hashes, conn, sock, wire,
                         nonceW, loginW, mpend>>]_vars

C17_Witness ==
  /\ tk[1].top = "fire31"
  /\ tk[2].top = "subscribe" /\ tk[2].pc = "done" /\ tk[2].out = "ok"
  /\ sub.subscribed /\ sub.timers = 1 /\ loginW = 1

\* C18: login() turns to the legacy login only after a nonce request that
\* was answered with a body in which no nonce was found; after any other end
\* of the nonce request (an empty response included) there is no legacy
\* attempt.
C18_LegacyOnlyWithoutNonce ==
  [][\A t \in Tasks :
       (tk[t].frame = "nonce" /\ tk'[t].frame = "legacy")
       => tk[t].res = "ok" /\ tk[t].pay = "xml"]_vars

\* C19: when the login request, modern or legacy, is answered with status
\* 401, login() fails with CredentialsInvalidError and does not change
\* loggedIn.
C19_UnauthorizedLogin ==
  [][\A t \in Tasks :
       (/\ tk[t].pc = "respWait" /\ tk[t].frame \in {"modern", "legacy"}
        /\ tk[t].res = "Api401" /\ tk'[t].pc # "respWait")
       => /\ tk'[t].pc = "done" /\ tk'[t].out = "CredentialsInvalid"
          /\ loggedIn' = loggedIn]_vars

C19_Witness ==
  /\ tk[1].top = "login" /\ tk[1].pc = "done" /\ tk[1].out = "CredentialsInvalid"
  /\ tk[2].pc = "idle"
  /\ ~nonce /\ nonceW = 1 /\ loginW = 1 /\ ~loggedIn

\* C20: a send() of a command above 2 has registered or written its own
\* request only with a login completed; when its implicit login fails with
\* CredentialsInvalidError the call ends with that error, nothing written and
\* no entry registered.  A send() of the logout command never enters login().
C20_LoginBeforeCommand ==
  \A t \in Tasks :
    /\ (tk[t].top = "send" /\ tk[t].cmd > 2)
       => /\ (tk[t].writes > 0 \/ (tk[t].frame = "cmd" /\ tk[t].res = "pending"))
               => loggedIn
          /\ (tk[t].pc = "done" /\ tk[t].out = "CredentialsInvalid")
               => tk[t].writes = 0 /\ tk[t].res # "pending"
    /\ (tk[t].top = "send" /\ tk[t].cmd = CmdLogout)
       => tk[t].pc # "lmWait" /\ tk[t].frame \in {"cmd", "none"}

C20_Witness ==
  \E t, u \in Tasks :
    /\ tk[t].top = "send" /\ tk[t].cmd = CmdKeepalive /\ tk[t].pc = "done"
    /\ tk[t].out = "CredentialsInvalid" /\ tk[t].writes = 0
    /\ tk[u].top = "send" /\ tk[u].cmd = CmdKeepalive /\ tk[u].pc = "done"
    /\ tk[u].out = "ok" /\ tk[u].writes = 1 /\ loggedIn

\* C21: a send() of a command other than logout ends with a connection error
\* only when the retry budget of the failing attempt is used up.
C21_ConnectionRetried ==
  [][\A t \in Tasks :
       (/\ tk[t].top = "send" /\ tk[t].cmd # CmdLogout
        /\ tk[t].pc # "done" /\ tk'[t].pc = "done" /\ tk'[t].out = "Connection")
       => tk[t].retry <= 0]_vars

\* C22: the client has at most one socket that is connecting or connected.
C22_OneLiveSocket ==
  Cardinality({s \in Socks : sock[s] \in {"connecting", "open"}}) <= 1

\* C23: while a caller is inside the critical section of login(), a step
\* that is not a step of that caller leaves the nonce, the AES key and the
\* two hashes as they are.
C23_SecretOnlyInCriticalSection ==
  [][\A t \in Tasks :
       (tk[t].held /\ tk'[t] = tk[t])
       => (nonce' = nonce /\ aesKey' = aesKey /\ hashes' = hashes)]_vars

\* C24: after the step in which an open connection closes (the close
\* callback has run), the nonce, the AES key and the two hashes are unset.
C24_CloseDestroysSecret ==
  [][(\E s \in Socks : sock[s] \in {"open", "closing"} /\ sock'[s] = "closed")
     => (~nonce' /\ ~aesKey' /\ ~hashes')]_vars

C28_NoGarbage ==
  codec.op = "decrypt"
  => IF codec.encBody = <<>>
     THEN codec.res = Body(<<>>, <<>>)
     ELSE codec.res.err # "none" \/ StartsWith(codec.res.val, Prologue)

\* A payload with which the first decoding returned a body that is not XML
\* was refused by decrypt()
C28_Witness ==
  /\ codec.op = "decrypt" /\ codec.encBody # <<>>
  /\ codec.res.err = "UnexpectedData"
  /\ FirstDecode(codec).err = "none"

\* C29: for a frame with a payload, decrypt() returns the first decoding
\* that begins with the prologue, in the order: the cipher the 20-byte header
\* declares, AES if a key is available, the legacy cipher, plaintext; it
\* raises UnexpectedDataError exactly when no decoding begins with the
\* prologue.
C29_FallbackChain ==
  (codec.op = "decrypt" /\ codec.encBody # <<>>)
  => LET aes == AesDecrypt(codec.encBody, codec.key)
         cand(kind) == CASE kind = "aes" -> IF aes.err = "none" THEN <<aes.val>> ELSE <<>>
                          [] kind = "bc" -> <<DecryptBaichuan(codec.encBody, codec.recEncOffset)>>
                          [] kind = "plain" -> <<Utf8Decode(codec.encBody)>>
         declared == IF codec.lenHeader = 20 /\ codec.recEncType \in {"01dd", "12dd"}
                     THEN <<"bc">>
                     ELSE IF codec.lenHeader = 20 /\ codec.recEncType \in {"02dd", "03dd"}
                     THEN <<"aes">>
                     ELSE <<>>
         chain == declared \o <<"aes", "bc", "plain">>
         Good(kind) == cand(kind) # <<>> /\ StartsWith(cand(kind)[1], Prologue)
         good == SelectSeq(chain, Good)
     IN IF good = <<>>
        THEN codec.res.err = "UnexpectedData"
        ELSE codec.res.err = "none" /\ codec.res.val = cand(good[1])[1]

\* C30: in every frame that send() builds, the header's payload length is
\* the number of payload bytes, the payload offset of a class 1464 header is
\* the number of bytes of the encrypted extension, and the header has 20
\* bytes for class 1465 and 24 bytes for class 1464.
C30_HeaderLengths ==
  (codec.op = "frame" /\ codec.res.err = "none")
  => /\ codec.res.messLen = Len(codec.res.encExt) + Len(codec.res.encBody)
     /\ codec.messageClass = "1464" => codec.res.payloadOffset = Len(codec.res.encExt)
     /\ codec.res.headerLen = IF codec.messageClass = "1465" THEN 20 ELSE 24

\* C26: at most one sendChunk() call at a time is between taking the send
\* mutex and releasing it, so at most one post is in flight.
C26_SendChunkExclusive ==
  web.op = "host"
  => /\ Cardinality({t \in HostTasks : web.hk[t].held}) <= 1
     /\ Cardinality({t \in HostTasks : web.hk[t].pc = "postWait"}) <= 1

\* C27: a JSON request made through Host.send with caching enabled is
\* answered from the cache, without a post, when the same request was
\* fetched less than the TTL ago and the cache was not cleared or disabled
\* since; otherwise it goes to the network.
C27_CacheServes ==
  [][\A t \in HostTasks :
       (web.hk[t].pc = "idle" /\ web'.hk[t].pc # "idle" /\ web'.hk[t].viaSend)
       => LET r == web'.hk[t]
              k == GetCacheKey(r.body, r.param)
              fresh == /\ web.cacheEnabled /\ r.rtype = "json"
                       /\ k \in DOMAIN web.answered
                       /\ web.time - web.answered[k] < CacheTTL
          IN (r.out = "cached") <=> fresh]_vars

\* C31: a send() with a channel and an extension, or with an invalid message
\* class, opens no connection, and it ends with InvalidParameterError, with
\* none of its bytes written and no pending entry registered.
C31_InvalidArguments ==
  [][\A t \in Tasks :
       (tk'[t].top = "send" /\ tk'[t].args # "ok")
       => /\ ~(tk[t].pc # "connWait" /\ tk'[t].pc = "connWait")
          /\ tk'[t].pc = "done"
               => (tk'[t].out = "InvalidParameter" /\ tk'[t].writes = 0
                   /\ tk'[t].res = "none")]_vars

\* C32: after every registerCallback or unregisterCallback the registry has
\* no command without channels and no channel without callbacks, and an id
\* occurs at most once in a slot (registering it again replaces it); a call
\* that shrinks the registry removes one id from every (command, channel)
\* slot and leaves every other id where it was; a call that grows it adds
\* one id to one slot.
C32_RegistryWellFormed ==
  [][LET ids(cb, c, ch) == IF c \in DOMAIN cb /\ ch \in DOMAIN cb[c] THEN cb[c][ch] ELSE <<>>
         old(c, ch) == ids(push.cb, c, ch)
         new(c, ch) == ids(push'.cb, c, ch)
         Slots == CmdKeys \X ChKeys
     IN /\ \A c \in DOMAIN push'.cb :
             /\ DOMAIN push'.cb[c] # {}
             /\ \A ch \in DOMAIN push'.cb[c] :
                  /\ push'.cb[c][ch] # <<>>
                  /\ \A i, j \in 1..Len(push'.cb[c][ch]) :
                       push'.cb[c][ch][i] = push'.cb[c][ch][j] => i = j
        /\ RegistrySize(push'.cb) < RegistrySize(push.cb)
             => \E id \in CallbackIds :
                  \A x \in Slots :
                    new(x[1], x[2]) = SelectSeq(old(x[1], x[2]), LAMBDA y : y # id)
        /\ RegistrySize(push'.cb) > RegistrySize(push.cb)
             => \E id \in CallbackIds, x \in Slots :
                  /\ \A i \in 1..Len(old(x[1], x[2])) : old(x[1], x[2])[i] # id
                  /\ new(x[1], x[2]) = Append(old(x[1], x[2]), id)
                  /\ \A z \in Slots \ {x} : new(z[1], z[2]) = old(z[1], z[2])]_vars

\* The registry holds one id under two slots next to nothing else, or two
\* ids under different commands: the states in which unregisterCallback has
\* to empty several inner maps, or to keep another id.
C32_Witness ==
  /\ CmdAlarm \in DOMAIN push.cb /\ NullCmd \in DOMAIN push.cb
  /\ 0 \in DOMAIN push.cb[CmdAlarm] /\ NullCh \in DOMAIN push.cb[NullCmd]
  /\ push.cb[CmdAlarm][0] = <<"a">>
  /\ push.cb[NullCmd][NullCh] = <<"b">>

\* C33: a callback registered with command null (any command) is invoked
\* when an alarm event is dispatched: for every handled event, the ids
\* registered under (null, its channel) and under (null, null) are among
\* the callbacks invoked.
C33_AnyCommandInvoked ==
  \A i \in 1..Len(push.events) :
    LET x == push.events[i] IN
    x.handled =>
      \A ch \in {x.ev.channelId, NullCh} :
        (NullCmd \in DOMAIN push.cb /\ ch \in DOMAIN push.cb[NullCmd])
        => \A k \in 1..Len(push.cb[NullCmd][ch]) :
             \E j \in 1..Len(x.calls) :
               x.calls[j].id = push.cb[NullCmd][ch][k] /\ x.calls[j].ch = ch

C35_AiTypes ==
  [][Len(push'.events) = 1 =>
       LET e == push'.events[1].ev
           ch == e.channelId
           occurs(m, str) == \E i \in 0..(Len(str) - Len(m)) :
                               \A k \in 1..Len(m) : str[i + k] = m[k]
           other == occurs(StrOther, e.AItype)
       IN ("channelId" \in e.has /\ ch \in KnownChannels /\ "AItype" \in e.has)
          => /\ \A a \in AiKeys : push'.ai[ch][a] = occurs(a, e.AItype)
             /\ other => push'.motion[ch]
             /\ ("status" \in e.has /\ ~occurs(StrMD, e.status) /\ ~other)
                  => ~push'.motion[ch]
             /\ ("status" \notin e.has /\ ~other) => push'.motion[ch] = push.motion[ch]
             /\ push'.events[1].motion = push'.motion[ch]]_vars

\* An event with status "none" and AI type "other" was processed: motion is
\* on through the AI type alone and the AI type people is off.
C35_Witness ==
  /\ Len(push.events) = 1
  /\ push.events[1].handled
  /\ push.events[1].ev.has = {"channelId", "status", "AItype"}
  /\ push.events[1].ev.status = StrNone /\ push.events[1].ev.AItype = StrOther
  /\ push.motion[0] /\ ~push.ai[0][StrPeople]

\* C36: subscribeEvents() does not wait for command 31.  When its login has
\* returned it sets subscribed and eventsActive, arms the timer and starts
\* the send of command 31 (sequence id 251) as a detached call; the flags
\* and the timer are set in no other step.  The step in which the detached
\* send ends with an error changes neither the subscription state nor the
\* timer, and a subscribeEvents() that ends with an error (its login
\* failed) has changed neither.
C36_FireAndForget ==
  [][\A t \in Tasks :
       /\ (tk[t].top = "subscribe" /\ tk[t].pc = "afterLogin" /\ tk'[t] # tk[t])
            => /\ sub'.subscribed /\ sub'.eventsActive
               /\ sub'.timers = sub.timers + 1 /\ sub'.keepaliveTask
               /\ tk'[t].top = "fire31" /\ tk'[t].pc = "enter"
               /\ tk'[t].cmd = CmdSubscribe /\ tk'[t].mess = MessPush
       /\ ((sub'.subscribed /\ ~sub.subscribed) \/ sub'.timers > sub.timers)
            => \E u \in Tasks : tk[u].top = "subscribe" /\ tk[u].pc = "afterLogin"
       /\ (tk[t].top \in {"fire31", "subscribe"} /\ tk[t].pc # "done"
             /\ tk'[t].pc = "done" /\ tk'[t].out # "ok")
            => /\ sub'.subscribed = sub.subscribed /\ sub'.eventsActive = sub.eventsActive
               /\ sub'.timers = sub.timers /\ sub'.due = sub.due
               /\ sub'.keepaliveTask = sub.keepaliveTask
       /\ (tk'[t].top = "subscribe" /\ tk'[t].pc = "done" /\ tk'[t].out # "ok")
            => tk'[t].cmd # CmdSubscribe]_vars

\* Command 31 was written and never answered: its send has used its budget
\* and ended with a timeout, and the client is subscribed with active
\* events and one armed timer.
C36_Witness ==
  \E t \in Tasks :
    /\ tk[t].top = "fire31" /\ tk[t].pc = "done" /\ tk[t].out = "Timeout"
    /\ tk[t].writes >= 1
    /\ sub.subscribed /\ sub.eventsActive /\ sub.timers = 1 /\ sub.keepaliveTask

\* C37: a keepalive send that fails does not stop the timer, and while the
\* client is subscribed every timer tick starts a send of the keepalive
\* command 93, also after a connection loss.
C37_KeepaliveResumes ==
  [][/\ \A t \in Tasks :
          (tk[t].top = "keepalive" /\ tk[t].pc # "done" /\ tk'[t].pc = "done"
            /\ tk'[t].out # "ok")
          => sub'.timers = sub.timers /\ sub'.keepaliveTask = sub.keepaliveTask
     /\ (sub'.due < sub.due /\ sub.subscribed)
          => \E t \in Tasks : /\ tk[t].pc = "idle" /\ tk'[t].pc = "enter"
                                /\ tk'[t].top = "keepalive" /\ tk'[t].cmd = CmdKeepalive]_vars

\* The writes of a send() stay within its budget, and every attempt is
\* entered with the parameters of the call and the budget that is left.
C38_BudgetBounds ==
  \A t \in Tasks :
    tk[t].top = "send"
    => /\ tk[t].writes <= (IF tk[t].budget = 0 THEN 1 ELSE tk[t].budget)
       /\ (tk[t].pc = "enter" /\ tk[t].frame = "cmd")
            => tk[t].retry = tk[t].budget - tk[t].writes
       /\ tk[t].pc \notin {"done", "capped"}
            => (tk[t].cmd = CmdCapability /\ tk[t].mess = MessHost)

\* A rejected attempt is repeated while budget is left; otherwise its error
\* ends the call.
C38_Retries ==
  [][\A t \in Tasks :
       (tk[t].top = "send" /\ tk[t].frame = "cmd" /\ tk[t].pc = "respWait"
         /\ tk'[t].pc # "respWait" /\ tk[t].res \in {"Api400", "Timeout", "Connection"})
       => IF tk[t].writes < tk[t].budget
          THEN tk'[t].pc \in {"enter", "busy"} /\ tk'[t].writes = tk[t].writes
          ELSE tk'[t].pc = "done" /\ tk'[t].out = tk[t].res]_vars

\* C38: every send() ends (or needs more than the NSocks connections of
\* the model).  A call with budget b writes its request at
\* most b times, and once when b is 0; every attempt is entered with the
\* parameters of the call and the budget less the attempts made; a
\* rejected attempt (busy, timeout or connection error) is repeated while
\* budget is left, and otherwise its error is the error of the call.  A
\* finished call stays finished, so "every call ends" is: again and again
\* no call is unfinished.
C38_Terminates ==
  /\ []C38_BudgetBounds
  /\ C38_Retries
  /\ []<>(\A t \in Tasks : tk[t].top = "send" => tk[t].pc \in {"done", "capped"})

\* A send() with the default budget ended with a timeout after three
\* writes of which an earlier one failed for another cause, next to a
\* send() with budget 0 that ended with a timeout after one write.
C38_Witness ==
  \E t, u \in Tasks :
    /\ tk[t].top = "send" /\ tk[t].budget = RETRY_ATTEMPTS /\ tk[t].pc = "done"
    /\ tk[t].writes = RETRY_ATTEMPTS /\ tk[t].out = "Timeout" /\ ~tk[t].onlyTmo
    /\ tk[u].top = "send" /\ tk[u].budget = 0 /\ tk[u].pc = "done"
    /\ tk[u].writes = 1 /\ tk[u].out = "Timeout"

\* C39: a send() writes its request only when its pending entry is
\* registered, each request is one write, and a response that arrives finds
\* a registered waiter for its command and sequence id on its connection.
C39_WaiterRegistered ==
  [][/\ \A t \in Tasks :
          (tk[t].pc = "mutexWait" /\ tk'[t].pc = "respWait")
          => /\ tk[t].reg # 0
             /\ Cardinality(wire' \ wire) <= 1
             /\ \A w \in wire' \ wire : w.cmd = FCmd(tk[t]) /\ w.mess = FMess(tk[t])
     /\ \A w \in wire :
          (wire' = wire \ {w} /\ sock' = sock) => Existing(w.sock, w.cmd, w.mess) # {}]_vars

\* C40: once logout() or unsubscribeEvents() has returned and no call has
\* been made after it (calls take the tasks in order, so every later task is
\* idle), no step opens a socket, starts a login handshake or sets
\* loggedIn, when every call still in flight has written its request.
C40_StaysLoggedOut ==
  [][(\E t \in Tasks :
        /\ tk[t].top \in LogoutTops /\ tk[t].pc = "done"
        /\ \A u \in Tasks : u > t => tk'[u].pc = "idle"
        /\ \A u \in Tasks : (u < t /\ tk[u].pc \notin {"idle", "done", "capped"})
                               => tk[u].writes >= 1)
     => /\ \A s \in Socks : sock'[s] = "connecting" => sock[s] = "connecting"
        /\ \A u \in Tasks : tk'[u].frame = "nonce" => tk[u].frame = "nonce"
        /\ loggedIn' => loggedIn]_vars

====
